---- MODULE Spec2Model ----
(***************************************************************************)
(* gps-timesync: the device session of pkg/gps (IsGPSDevice, SyncTime,     *)
(* MonitorGPS), the timestamp parser of pkg/nmea and the clock-set         *)
(* collaborator of pkg/system, as a state machine.                         *)
(*                                                                         *)
(* One GPSTimeSync instance g is modelled.  A call of one of its methods   *)
(* runs from Invoke to Return; between the two it moves through the        *)
(* program points open -> configure -> select <-> scan.  The device, the   *)
(* timer behind time.After and the holder of g.Cancel are the environment. *)
(* Lines are the tokens bufio.Scanner hands out (the text of a line        *)
(* without its CR LF), kept as strings.                                    *)
(***************************************************************************)
EXTENDS Integers, Sequences, FiniteSets, TLC

\* Lines one call reads at most.
MaxLines == 2

\* Characters of the longest made-up sentence body handed to the encoder.
MaxBody == 3

\* Lines one call reads at most when it is main that makes the call.
MaxProgramLines == 1

NoErr == ""

ErrDeviceAccess == "cannot access device"
ErrNoValidData == "no valid GPS data received"
ErrInvalidNMEAData == "invalid NMEA data"
ErrSystemTimeUpdate == "failed to update system time"
ErrUnsupportedOS == "unsupported operating system"
ErrCanceled == "context canceled"
ErrRead == "error reading device"
ErrConfigure == "failed to configure serial port"
ErrInvalidPath == "invalid device path"
ErrTimeParse == "parsing time: out of range or not a number"

(***************************************************************************)
(* Strings                                                                 *)
(***************************************************************************)
Char(s, i) == SubSeq(s, i, i)

HasPrefix(s, prefix) ==
    /\ Len(s) >= Len(prefix)
    /\ SubSeq(s, 1, Len(prefix)) = prefix

HasSuffix(s, suffix) ==
    /\ Len(s) >= Len(suffix)
    /\ SubSeq(s, Len(s) - Len(suffix) + 1, Len(s)) = suffix

\* The position of the first sep in s at or after i, or 0.
RECURSIVE IndexFrom(_, _, _)
IndexFrom(s, sep, i) ==
    IF i > Len(s) THEN 0
    ELSE IF Char(s, i) = sep THEN i
    ELSE IndexFrom(s, sep, i + 1)

\* strings.Split(s, sep) for a one-character sep: n separators give n+1 fields.
RECURSIVE Split(_, _)
Split(s, sep) ==
    LET k == IndexFrom(s, sep, 1)
    IN  IF k = 0 THEN <<s>>
        ELSE <<SubSeq(s, 1, k - 1)>> \o Split(SubSeq(s, k + 1, Len(s)), sep)

DigitChars == <<"0", "1", "2", "3", "4", "5", "6", "7", "8", "9">>

IsDigit(c) == \E d \in 1..Len(DigitChars) : DigitChars[d] = c

DigitVal(c) == (CHOOSE d \in 1..Len(DigitChars) : DigitChars[d] = c) - 1

RECURSIVE AllDigits(_)
AllDigits(s) ==
    \/ Len(s) = 0
    \/ IsDigit(Char(s, 1)) /\ AllDigits(SubSeq(s, 2, Len(s)))

RECURSIVE Atoi(_)
Atoi(s) ==
    IF Len(s) = 0 THEN 0
    ELSE 10 * Atoi(SubSeq(s, 1, Len(s) - 1)) + DigitVal(Char(s, Len(s)))

(***************************************************************************)
(* pkg/nmea                                                                *)
(***************************************************************************)
IsLeap(year) == year % 4 = 0 /\ (year % 100 # 0 \/ year % 400 = 0)

DaysIn(month, year) ==
    IF month = 2 THEN (IF IsLeap(year) THEN 29 ELSE 28)
    ELSE IF month \in {4, 6, 9, 11} THEN 30
    ELSE 31

NoTime == [year |-> 1, month |-> 1, day |-> 1, hour |-> 0, min |-> 0, sec |-> 0]

\* TimeParse, had it taken every day up to 31 in every month.
TimeParseDayUpTo31(year, month, day, hour, min, sec) ==
    IF ~(/\ Len(year) = 4 /\ AllDigits(year)
         /\ Len(month) = 2 /\ AllDigits(month)
         /\ Len(day) = 2 /\ AllDigits(day)
         /\ Len(hour) = 2 /\ AllDigits(hour)
         /\ Len(min) = 2 /\ AllDigits(min)
         /\ Len(sec) = 2 /\ AllDigits(sec))
    THEN [err |-> ErrTimeParse, t |-> NoTime]
    ELSE IF \/ Atoi(month) <= 0 \/ 12 < Atoi(month)
            \/ 24 <= Atoi(hour)
            \/ 60 <= Atoi(min)
            \/ 60 <= Atoi(sec)
            \/ Atoi(day) < 1 \/ Atoi(day) > 31
         THEN [err |-> ErrTimeParse, t |-> NoTime]
         ELSE [err |-> NoErr,
               t |-> [year |-> Atoi(year), month |-> Atoi(month),
                      day |-> Atoi(day), hour |-> Atoi(hour),
                      min |-> Atoi(min), sec |-> Atoi(sec)]]

\* time.Parse("2006-01-02 15:04:05", year-month-day hour:min:sec) on the six
\* pieces ParseNMEATime cuts out: each piece must be all digits (a one-digit
\* hour is read by the layout, but the character after it then fails to match),
\* then month, day, hour, minute and second are range-checked.
TimeParse(year, month, day, hour, min, sec) ==
    IF ~(/\ Len(year) = 4 /\ AllDigits(year)
         /\ Len(month) = 2 /\ AllDigits(month)
         /\ Len(day) = 2 /\ AllDigits(day)
         /\ Len(hour) = 2 /\ AllDigits(hour)
         /\ Len(min) = 2 /\ AllDigits(min)
         /\ Len(sec) = 2 /\ AllDigits(sec))
    THEN [err |-> ErrTimeParse, t |-> NoTime]
    ELSE LET y == Atoi(year)
             mo == Atoi(month)
             d == Atoi(day)
             h == Atoi(hour)
             mi == Atoi(min)
             s == Atoi(sec)
         IN  IF \/ mo <= 0 \/ 12 < mo
                \/ 24 <= h
                \/ 60 <= mi
                \/ 60 <= s
                \/ d < 1 \/ d > DaysIn(mo, y)
             THEN [err |-> ErrTimeParse, t |-> NoTime]
             ELSE [err |-> NoErr,
                   t |-> [year |-> y, month |-> mo, day |-> d,
                          hour |-> h, min |-> mi, sec |-> s]]

\* ParseNMEATime, had it wanted a time of exactly six characters.
ParseNMEATimeSixOnly(timeStr, dateStr) ==
    IF Len(timeStr) # 6 \/ Len(dateStr) # 6
    THEN [err |-> ErrInvalidNMEAData, t |-> NoTime]
    ELSE TimeParse("20" \o SubSeq(dateStr, 5, 6), SubSeq(dateStr, 3, 4),
                   SubSeq(dateStr, 1, 2), SubSeq(timeStr, 1, 2),
                   SubSeq(timeStr, 3, 4), SubSeq(timeStr, 5, 6))

\* ParseNMEATime, had it put the year in the century before.
ParseNMEATimeCentury19(timeStr, dateStr) ==
    IF Len(timeStr) < 6 \/ Len(dateStr) # 6
    THEN [err |-> ErrInvalidNMEAData, t |-> NoTime]
    ELSE TimeParse("19" \o SubSeq(dateStr, 5, 6), SubSeq(dateStr, 3, 4),
                   SubSeq(dateStr, 1, 2), SubSeq(timeStr, 1, 2),
                   SubSeq(timeStr, 3, 4), SubSeq(timeStr, 5, 6))

\* ParseNMEATime, had it read the date as MMDDYY.
ParseNMEATimeMonthFirst(timeStr, dateStr) ==
    IF Len(timeStr) < 6 \/ Len(dateStr) # 6
    THEN [err |-> ErrInvalidNMEAData, t |-> NoTime]
    ELSE TimeParse("20" \o SubSeq(dateStr, 5, 6), SubSeq(dateStr, 1, 2),
                   SubSeq(dateStr, 3, 4), SubSeq(timeStr, 1, 2),
                   SubSeq(timeStr, 3, 4), SubSeq(timeStr, 5, 6))

ParseNMEATime(timeStr, dateStr) ==
    IF Len(timeStr) < 6 \/ Len(dateStr) # 6
    THEN [err |-> ErrInvalidNMEAData, t |-> NoTime]
    ELSE LET hour == SubSeq(timeStr, 1, 2)
             min == SubSeq(timeStr, 3, 4)
             sec == SubSeq(timeStr, 5, 6)
             day == SubSeq(dateStr, 1, 2)
             month == SubSeq(dateStr, 3, 4)
             year == "20" \o SubSeq(dateStr, 5, 6)
         IN  TimeParse(year, month, day, hour, min, sec)

(***************************************************************************)
(* pkg/system                                                              *)
(***************************************************************************)
UnixLike == {"linux", "darwin", "freebsd", "openbsd", "netbsd"}

ClockAtBoot == [date |-> <<1970, 1, 1>>, tod |-> <<0, 0, 0>>]

DateOf(t) == <<t.year, t.month, t.day>>
TodOf(t) == <<t.hour, t.min, t.sec>>

\* SetSystemTime(t) on a system whose clock reads clk; ok1 and ok2 say whether
\* the first and the second command it runs succeed.
SetSystemTime(os, t, clk, ok1, ok2) ==
    IF os = "windows"
    THEN IF ~ok1 THEN [err |-> ErrSystemTimeUpdate, clock |-> clk]
         ELSE IF ~ok2
              THEN [err |-> ErrSystemTimeUpdate,
                    clock |-> [clk EXCEPT !.tod = TodOf(t)]]
              ELSE [err |-> NoErr, clock |-> [date |-> DateOf(t), tod |-> TodOf(t)]]
    ELSE IF os \in UnixLike
    THEN IF ~ok1 THEN [err |-> ErrSystemTimeUpdate, clock |-> clk]
         ELSE [err |-> NoErr, clock |-> [date |-> DateOf(t), tod |-> TodOf(t)]]
    ELSE [err |-> ErrUnsupportedOS, clock |-> clk]

\* How the commands SetSystemTime runs may end: <<first succeeds, second succeeds>>
\* (the second is run only on Windows, and only after the first succeeded).
CommandRuns == {<<TRUE, TRUE>>, <<TRUE, FALSE>>, <<FALSE, TRUE>>}

\* ConfigureSerialPort(device, baudRate); ok says whether stty succeeds.
ConfigureSerialPort(os, ok) ==
    IF os = "windows" THEN NoErr
    ELSE IF os \in UnixLike THEN (IF ok THEN NoErr ELSE ErrConfigure)
    ELSE ErrUnsupportedOS

(***************************************************************************)
(* pkg/gps: what the device may deliver                                    *)
(***************************************************************************)
RMCValid == "$GPRMC,123519.00,A,4807.0380,N,01131.0000,E,0.1,0.0,230324,,,A*54"
RMCVoid == "$GPRMC,123520.00,V,,,,,,,230324,,,N*7E"
RMCBadDate == "$GPRMC,123521.00,A,4807.0380,N,01131.0000,E,0.1,0.0,320324,,,A*5F"
RMCShortTime == "$GPRMC,1235,A,4807.0380,N,01131.0000,E,0.1,0.0,230324,,,A*72"
RMCFewFields == "$GPRMC,123522.00,A,4807.0380,N*41"
RMCNoChecksum == "$GPRMC,123527.00,A,4807.0380,N,01131.0000,E,0.1,0.0,230324,,,A"
RMCBadSum == "$GPRMC,123519.00,A,4807.0380,N,01131.0000,E,0.1,0.0,230324,,,A*00"
RMCTenFields == "$GPRMC,123519.00,A,4807.0380,N,01131.0000,E,0.1,0.0,230324*39"
RMCOtherTalker == "$GNRMC,123523.00,A,4807.0380,N,01131.0000,E,0.1,0.0,230324,,,A*43"
GGAValid == "$GPGGA,123519.00,4807.0380,N,01131.0000,E,1,07,1.0,123.4,M,0.0,M,,0000*51"
GGABadSum == "$GPGGA,123519.00,4807.0380,N,01131.0000,E,1,07,1.0,123.4,M,0.0,M,,0000*00"
GSVGlonass == "$GLGSV,1,1,01,65,45,120,30*56"
GSVGalileo == "$GAGSV,1,1,01,05,45,120,30*5D"
GSVValid == "$GPGSV,1,1,01,05,45,120,30*4C"
GLLValid == "$GPGLL,4807.0380,N,01131.0000,E,123519.00,A,A*66"
Proprietary == "$PUBX,00*33"
RMCExample == "$GPRMC,123519,A,4807.038,N,01131.000,E,022.4,084.4,230394,003.1,W*6A"
Noise == "GPGGA no dollar"

\* The lines a device may deliver during a call of each method.
LinesFor(o) ==
    IF o = "probe"
    THEN {GGABadSum, RMCOtherTalker, GSVGlonass, GSVGalileo, Proprietary, Noise}
    ELSE IF o = "sync"
    THEN {RMCValid, RMCVoid, RMCBadDate, RMCShortTime, RMCFewFields, RMCOtherTalker,
          RMCNoChecksum, RMCBadSum, RMCTenFields}
    ELSE {RMCValid, RMCVoid, RMCFewFields, RMCOtherTalker, GGAValid, GGABadSum,
          GSVValid, GSVGlonass, GLLValid, Proprietary, Noise}

\* The platform the binary is built for and the device path it is given.
Platforms ==
    { [goos |-> "linux", device |-> "/dev/ttyUSB0"],
      [goos |-> "windows", device |-> "COM3"],
      [goos |-> "plan9", device |-> "COM3"] }

\* The device paths of the model.
AllPaths == {"/dev/ttyUSB0", "/dev/ttyACM0", "COM3"}

Methods == {"probe", "sync", "monitor"}

AllLines == UNION {LinesFor(o) : o \in Methods}

\* strings.Split(line, ","), worked out once for each line of the model.
FieldsOf == [line \in AllLines |-> Split(line, ",")]

Fields(line) == IF line \in AllLines THEN FieldsOf[line] ELSE Split(line, ",")

\* The methods whose loop selects on a time.After channel.
HasTimeout(o) == o \in {"probe", "sync"}

(***************************************************************************)
(* pkg/gps: what each loop does with the line scanner.Scan() returned      *)
(***************************************************************************)
\* The outcome of handling one line: ret, the method returns (ok, err);
\* set, SetSystemTime was called and returned setErr; clock, the system
\* clock afterwards; shown, what was printed.
Continue(clk) ==
    [ret |-> FALSE, ok |-> FALSE, err |-> NoErr, set |-> FALSE,
     setErr |-> NoErr, clock |-> clk, shown |-> ""]

\* ProbeMatch, had it tested the GP talker only.
ProbeMatchGPOnly(line) == HasPrefix(line, "$GP")

\* IsGPSDevice: the prefix test on a line.
ProbeMatch(line) ==
    \/ HasPrefix(line, "$GP")
    \/ HasPrefix(line, "$GN")
    \/ HasPrefix(line, "$GL")
    \/ HasPrefix(line, "$GA")

ProbeLine(line, clk) ==
    IF ProbeMatch(line)
    THEN [Continue(clk) EXCEPT !.ret = TRUE, !.ok = TRUE]
    ELSE Continue(clk)

\* RMCUsable, had it not looked at the status field.
RMCUsableAnyStatus(fields) == ~(Len(fields) < 10)

\* SyncTime: the test that lets a $GPRMC sentence through to the parser.
RMCUsable(fields) == ~(Len(fields) < 10 \/ fields[3] # "A")

\* OnParseError, had it returned the error instead of going on.
OnParseErrorReturns(perr, clk) == [Continue(clk) EXCEPT !.ret = TRUE, !.err = perr]

\* SyncTime: ParseNMEATime failed.
OnParseError(perr, clk) == Continue(clk)

\* OnSetResult, had it gone on reading after a successful SetSystemTime.
OnSetResultKeepsReading(s) ==
    [ret |-> s.err # NoErr, ok |-> FALSE, err |-> s.err, set |-> TRUE,
     setErr |-> s.err, clock |-> s.clock, shown |-> ""]

\* OnSetResult, had it gone on reading after a failed SetSystemTime.
OnSetResultIgnoresError(s) ==
    [ret |-> s.err = NoErr, ok |-> FALSE, err |-> NoErr, set |-> TRUE,
     setErr |-> s.err, clock |-> s.clock, shown |-> ""]

\* SyncTime: SetSystemTime returned s.
OnSetResult(s) ==
    IF s.err # NoErr
    THEN [ret |-> TRUE, ok |-> FALSE, err |-> s.err, set |-> TRUE,
          setErr |-> s.err, clock |-> s.clock, shown |-> ""]
    ELSE [ret |-> TRUE, ok |-> FALSE, err |-> NoErr, set |-> TRUE,
          setErr |-> NoErr, clock |-> s.clock, shown |-> ""]

\* SyncLine, had it skipped the sentences whose checksum digits are wrong.
SyncLineVerifiesChecksum(os, line, clk, ok1, ok2) ==
    IF HasPrefix(line, "$GPRMC") /\ line \notin {RMCBadSum, GGABadSum}
    THEN LET fields == Fields(line)
         IN  IF ~RMCUsable(fields) THEN Continue(clk)
             ELSE LET p == ParseNMEATime(fields[2], fields[10])
                  IN  IF p.err # NoErr THEN OnParseError(p.err, clk)
                      ELSE OnSetResult(SetSystemTime(os, p.t, clk, ok1, ok2))
    ELSE Continue(clk)

SyncLine(os, line, clk, ok1, ok2) ==
    IF HasPrefix(line, "$GPRMC")
    THEN LET fields == Fields(line)
         IN  IF ~RMCUsable(fields) THEN Continue(clk)
             ELSE LET p == ParseNMEATime(fields[2], fields[10])
                  IN  IF p.err # NoErr THEN OnParseError(p.err, clk)
                      ELSE OnSetResult(SetSystemTime(os, p.t, clk, ok1, ok2))
    ELSE Continue(clk)

\* TypeMatches, had it looked for the GP talker in front of the type.
TypeMatchesGPOnly(sentenceType, type) == sentenceType = "$GP" \o type

\* MonitorGPS: the case of the switch that a first field selects.
TypeMatches(sentenceType, type) == HasSuffix(sentenceType, type)

\* MonitorGPS: what is printed for a line.
MonitorShown(line) ==
    IF HasPrefix(line, "$")
    THEN LET fields == Fields(line)
             sentenceType == fields[1]
         IN  IF Len(fields) = 0 THEN ""
             ELSE IF TypeMatches(sentenceType, "RMC")
             THEN IF Len(fields) >= 10 /\ fields[3] = "A"
                  THEN "Time: " \o fields[2] \o ", Date: " \o fields[10]
                  ELSE ""
             ELSE IF TypeMatches(sentenceType, "GGA")
             THEN IF Len(fields) >= 8
                  THEN "Latitude: " \o fields[3] \o fields[4] \o ", Longitude: "
                       \o fields[5] \o fields[6] \o ", Satellites: " \o fields[8]
                  ELSE ""
             ELSE IF TypeMatches(sentenceType, "GSV")
             THEN IF Len(fields) >= 4
                  THEN "Satellites in view data: " \o line
                  ELSE ""
             ELSE ""
    ELSE ""

\* MonitorLine, had it given up on a line it prints nothing for.
MonitorLineStopsOnSilence(line, clk) ==
    IF MonitorShown(line) = ""
    THEN [Continue(clk) EXCEPT !.ret = TRUE, !.err = ErrInvalidNMEAData]
    ELSE [Continue(clk) EXCEPT !.shown = MonitorShown(line)]

\* MonitorGPS: one line read.
MonitorLine(line, clk) == [Continue(clk) EXCEPT !.shown = MonitorShown(line)]

\* HandleLine, had MonitorGPS handled a line as SyncTime does.
HandleLineSetsClockInMonitor(o, os, line, clk, ok1, ok2) ==
    IF o = "probe" THEN ProbeLine(line, clk)
    ELSE SyncLine(os, line, clk, ok1, ok2)

HandleLine(o, os, line, clk, ok1, ok2) ==
    IF o = "probe" THEN ProbeLine(line, clk)
    ELSE IF o = "sync" THEN SyncLine(os, line, clk, ok1, ok2)
    ELSE MonitorLine(line, clk)

\* IsGPSDevice: the check of the device path before it is opened.
ValidPath(os, dev) ==
    IF os = "windows" THEN HasPrefix(dev, "COM") ELSE HasPrefix(dev, "/dev/")

(***************************************************************************)
(* State                                                                   *)
(***************************************************************************)
VARIABLES
    goos,       \* runtime.GOOS
    device,     \* the device path of the instance
    op,         \* the method called last: "none" or one of Methods
    pc,         \* "idle" (no call running), "configure", "select", "scan"
    fileOpen,   \* the handle os.OpenFile returned is open
    stream,     \* the device behind the handle: "open", "eof" or "err"
    timedOut,   \* the time.After channel of the running call is ready
    cancelled,  \* g.Ctx is done
    log,        \* the lines scanner.Scan() returned in the call, in order
    setCalls,   \* SetSystemTime calls made in the call
    lastSet,    \* "none", or what the last SetSystemTime of the call returned
    clock,      \* the system clock
    result,     \* what the call returned: [ok, err] (NoResult while it runs)
    shown,      \* what MonitorGPS printed for the last line
    setFailed,  \* an earlier SyncTime call of g returned ErrSystemTimeUpdate
    sentence,   \* the line SyncTime is looking at ("": the fields are given)
    timeField,  \* the time field handed to ParseNMEATime
    dateField,  \* the date field handed to ParseNMEATime
    parsed,     \* what ParseNMEATime returned: [stage, err, t]
    body,       \* the body handed to addChecksumAndCRLF
    scanned,    \* the bytes of body its loop has gone through
    checksum,   \* its local variable checksum
    encoded,    \* what addChecksumAndCRLF returned ("" before the call)
    handles,    \* the handles the process holds open: path -> how many
    mainPc,     \* where main is ("none": the methods are called directly)
    present,    \* the device paths that exist in the file system
    seen,       \* MonitorDevices: seenDevices
    devices,    \* what FindGPSDevices returned and the loop has yet to visit
    selected,   \* main: selectedDevice ("" before the selection)
    printed,    \* what the last step of main or MonitorDevices printed
    sigChan,    \* signals delivered to sigChan and not yet received (0 or 1)
    handler,    \* the goroutine that receives from sigChan: "off", "waiting", "done"
    confirmed,  \* the paths on which IsGPSDevice has returned true in this run
    removed,    \* the paths MonitorDevices has reported as removed in this run
    talkerID,   \* simulator: the -talker flag, then the talker ID in use
    numSatellites, \* simulator: the -sats flag, then the number in use
    movementEnabled, \* simulator: the -move flag
    movementSpeed, \* simulator: the -speed flag, in units of 1e-7 degrees per second
    movementBearing, \* simulator: the -bearing flag, in degrees
    simPc,      \* where the simulator is ("off": it does not run)
    currentPos, \* simulator: currentPos, in units of 1e-7 degrees
    nmeaPos,    \* simulator: what toNMEALat and toNMEALon returned
    sentences,  \* simulator: the sentences of the cycle, in order
    numSVInView, \* simulator: numSVInView of the cycle
    selectedPRNs, \* simulator: selectedPRNs of the cycle
    cursor,     \* simulator: how many sentences of the cycle the write loop has passed
    retry,      \* simulator: the failed attempts to write the sentence at the cursor
    port        \* simulator: what has been written to the port in the cycle

vars ==
    <<goos, device, op, pc, fileOpen, stream, timedOut, cancelled, log,
      setCalls, lastSet, clock, result, shown, setFailed,
      sentence, timeField, dateField, parsed, body, scanned, checksum, encoded,
      handles, mainPc, present, seen, devices, selected, printed, sigChan,
      handler, confirmed, removed,
      talkerID, numSatellites, movementEnabled, movementSpeed, movementBearing,
      simPc, currentPos, nmeaPos, sentences,
      numSVInView, selectedPRNs, cursor, retry, port>>

\* The variables of the device session.
sessionVars ==
    <<goos, device, op, pc, fileOpen, stream, timedOut, cancelled, log,
      setCalls, lastSet, clock, result, shown, setFailed, handles>>

\* The variables of main and of MonitorDevices.
progVars ==
    <<mainPc, present, seen, devices, selected, printed, sigChan, handler,
      confirmed, removed>>

\* The arguments and results of the functions that are called without a
\* session: ParseNMEATime and the simulator's addChecksumAndCRLF.
callVars ==
    <<sentence, timeField, dateField, parsed, body, scanned, checksum, encoded>>

\* The variables of the simulator.
simVars ==
    <<talkerID, numSatellites, movementEnabled, movementSpeed, movementBearing,
      simPc, currentPos, nmeaPos, sentences,
      numSVInView, selectedPRNs, cursor, retry, port>>

NoParse == [stage |-> "fields", err |-> NoErr, t |-> NoTime]

NoResult == [ok |-> FALSE, err |-> NoErr]

\* No call of a session-less function is under way.
NoCall ==
    /\ sentence = ""
    /\ timeField = ""
    /\ dateField = ""
    /\ parsed = NoParse
    /\ body = ""
    /\ scanned = 0
    /\ checksum = 0
    /\ encoded = ""

\* The session before its first call.
SessionInit ==
    /\ op = "none"
    /\ pc = "idle"
    /\ fileOpen = FALSE
    /\ stream = "open"
    /\ timedOut = FALSE
    /\ cancelled = FALSE
    /\ log = <<>>
    /\ setCalls = 0
    /\ lastSet = "none"
    /\ clock = ClockAtBoot
    /\ result = NoResult
    /\ shown = ""
    /\ setFailed = FALSE
    /\ handles = [p \in AllPaths |-> 0]

\* main is not running: the methods of the session are called directly.
NoProgram ==
    /\ mainPc = "none"
    /\ present = {}
    /\ seen = {}
    /\ devices = <<>>
    /\ selected = ""
    /\ printed = {}
    /\ sigChan = 0
    /\ handler = "off"
    /\ confirmed = {}
    /\ removed = {}

\* The simulator does not run.
NoNMEAPos == [lat |-> "", ns |-> "", lon |-> "", ew |-> ""]

NoSimulator ==
    /\ talkerID = ""
    /\ numSatellites = 0
    /\ movementEnabled = FALSE
    /\ movementSpeed = 0
    /\ movementBearing = 0
    /\ simPc = "off"
    /\ currentPos = [Latitude |-> 0, Longitude |-> 0]
    /\ nmeaPos = NoNMEAPos
    /\ sentences = <<>>
    /\ numSVInView = 0
    /\ selectedPRNs = <<>>
    /\ cursor = 0
    /\ retry = 0
    /\ port = <<>>

Init ==
    /\ \E p \in Platforms : goos = p.goos /\ device = p.device
    /\ SessionInit
    /\ NoCall
    /\ NoProgram
    /\ NoSimulator

(***************************************************************************)
(* Operations                                                              *)
(***************************************************************************)
\* Return, had the handle been left open.
ReturnNoClose(r) ==
    /\ pc' = "idle"
    /\ fileOpen' = fileOpen
    /\ handles' = handles
    /\ stream' = "open"
    /\ result' = r
    /\ setFailed' = (setFailed \/ r.err = ErrSystemTimeUpdate)

ReturnLeavesOpenOnError(r) ==
    /\ pc' = "idle"
    /\ fileOpen' = (fileOpen /\ r.err # NoErr)
    /\ handles' = (IF fileOpen /\ r.err = NoErr
                   THEN [handles EXCEPT ![device] = @ - 1] ELSE handles)
    /\ stream' = "open"
    /\ result' = r
    /\ setFailed' = (setFailed \/ r.err = ErrSystemTimeUpdate)

\* A return of the running call with (ok, err); the deferred file.Close() runs
\* (stream says nothing once the handle is closed).
Return(r) ==
    /\ pc' = "idle"
    /\ fileOpen' = FALSE
    /\ handles' = (IF fileOpen THEN [handles EXCEPT ![device] = @ - 1] ELSE handles)
    /\ stream' = "open"
    /\ result' = r
    /\ setFailed' = (setFailed \/ r.err = ErrSystemTimeUpdate)

\* Call, had every call started with a context of its own.
CallRenewsContext(o) ==
    /\ pc = "idle"
    /\ UNCHANGED callVars
    /\ UNCHANGED simVars
    /\ op' = o
    /\ log' = <<>>
    /\ setCalls' = 0
    /\ lastSet' = "none"
    /\ shown' = ""
    /\ timedOut' = FALSE
    /\ cancelled' = FALSE
    /\ UNCHANGED <<goos, device, clock>>
    /\ IF o = "probe" /\ ~ValidPath(goos, device)
       THEN Return([ok |-> FALSE, err |-> ErrInvalidPath])
       ELSE \E opened \in BOOLEAN :
                IF opened
                THEN /\ fileOpen' = TRUE
                     /\ handles' = [handles EXCEPT ![device] = @ + 1]
                     /\ stream' = "open"
                     /\ pc' = "configure"
                     /\ result' = NoResult
                     /\ UNCHANGED setFailed
                ELSE Return([ok |-> FALSE, err |-> ErrDeviceAccess])

\* A call of a method, up to and including os.OpenFile.
Call(o) ==
    /\ pc = "idle"
    /\ UNCHANGED callVars
    /\ UNCHANGED simVars
    /\ op' = o
    /\ log' = <<>>
    /\ setCalls' = 0
    /\ lastSet' = "none"
    /\ shown' = ""
    /\ timedOut' = FALSE
    /\ UNCHANGED <<goos, device, cancelled, clock>>
    /\ IF o = "probe" /\ ~ValidPath(goos, device)
       THEN Return([ok |-> FALSE, err |-> ErrInvalidPath])
       ELSE \E opened \in BOOLEAN :
                IF opened
                THEN /\ fileOpen' = TRUE
                     /\ handles' = [handles EXCEPT ![device] = @ + 1]
                     /\ stream' = "open"
                     /\ pc' = "configure"
                     /\ result' = NoResult
                     /\ UNCHANGED setFailed
                ELSE Return([ok |-> FALSE, err |-> ErrDeviceAccess])

\* A call of a method by a caller that is not modelled.
Invoke(o) == Call(o) /\ UNCHANGED progVars

\* system.ConfigureSerialPort, then scanner and timer are created.
Configure ==
    /\ pc = "configure"
    /\ UNCHANGED callVars
    /\ UNCHANGED progVars
    /\ UNCHANGED simVars
    /\ UNCHANGED <<goos, device, op, timedOut, cancelled, log,
                   setCalls, lastSet, clock, shown>>
    /\ \E ok \in BOOLEAN :
           LET err == ConfigureSerialPort(goos, ok)
           IN  IF err # NoErr
               THEN Return([ok |-> FALSE, err |-> err])
               ELSE pc' = "select" /\ UNCHANGED <<fileOpen, stream, result, setFailed, handles>>

SelectTakesDefault ==
    /\ pc = "select"
    /\ UNCHANGED callVars
    /\ UNCHANGED progVars
    /\ UNCHANGED simVars
    /\ UNCHANGED <<goos, device, op, timedOut, cancelled, log,
                   setCalls, lastSet, clock, shown>>
    /\ pc' = "scan"
    /\ UNCHANGED <<fileOpen, stream, result, setFailed, handles>>

\* The select at the top of the loop: a ready case is taken (any one of them
\* when both are ready), the default case only when none is.
Select ==
    /\ pc = "select"
    /\ UNCHANGED callVars
    /\ UNCHANGED progVars
    /\ UNCHANGED simVars
    /\ UNCHANGED <<goos, device, op, timedOut, cancelled, log,
                   setCalls, lastSet, clock, shown>>
    /\ \/ /\ HasTimeout(op) /\ timedOut
          /\ Return([ok |-> FALSE, err |-> ErrNoValidData])
       \/ /\ cancelled
          /\ Return([ok |-> FALSE, err |-> ErrCanceled])
       \/ /\ ~(HasTimeout(op) /\ timedOut) /\ ~cancelled
          /\ pc' = "scan"
          /\ UNCHANGED <<fileOpen, stream, result, setFailed, handles>>

\* How many lines a device delivers during one call: MaxLines when the methods
\* are called directly, MaxProgramLines when main calls them.
LineBound == IF mainPc = "none" THEN MaxLines ELSE MaxProgramLines

\* The lines a read may return: in a run of the whole program, one line of
\* each kind the callers of main can tell apart by the outcome of the call.
Delivered(o) ==
    IF mainPc = "none" THEN LinesFor(o)
    ELSE LinesFor(o) \cap {RMCValid, RMCVoid, RMCTenFields, GGAValid, GGABadSum,
                           GSVValid, Proprietary, Noise}

\* The timer, had every line read started it afresh.
TimerRestartedByLine(fired) == FALSE

\* timeout := time.After(...) is made once, before the loop: every iteration
\* selects on that one channel, and a line that is read leaves it as it is.
TimerAfterLine(fired) == fired

\* scanner.Scan() returns true with a line the device delivered.
ScanLine ==
    /\ pc = "scan"
    /\ UNCHANGED callVars
    /\ UNCHANGED progVars
    /\ UNCHANGED simVars
    /\ stream = "open"
    /\ Len(log) < LineBound
    /\ UNCHANGED <<goos, device, op, cancelled>>
    /\ timedOut' = TimerAfterLine(timedOut)
    /\ \E line \in Delivered(op), cmds \in CommandRuns :
           LET o == HandleLine(op, goos, line, clock, cmds[1], cmds[2])
           IN  /\ log' = Append(log, line)
               /\ setCalls' = setCalls + (IF o.set THEN 1 ELSE 0)
               /\ lastSet' = (IF o.set THEN (IF o.setErr = NoErr THEN "ok" ELSE o.setErr)
                              ELSE lastSet)
               /\ clock' = o.clock
               /\ shown' = o.shown
               /\ IF o.ret
                  THEN Return([ok |-> o.ok, err |-> o.err])
                  ELSE pc' = "select" /\ UNCHANGED <<fileOpen, stream, result, setFailed, handles>>

\* scanner.Scan() returns false at end of stream; scanner.Err() is then nil.
ScanEOF ==
    /\ pc = "scan"
    /\ UNCHANGED callVars
    /\ UNCHANGED progVars
    /\ UNCHANGED simVars
    /\ stream = "eof"
    /\ pc' = "select"
    /\ UNCHANGED <<goos, device, op, fileOpen, stream, timedOut, cancelled, log,
                   setCalls, lastSet, clock, result, shown, setFailed, handles>>

\* scanner.Scan() returns false on a read error; scanner.Err() returns it.
ScanError ==
    /\ pc = "scan"
    /\ UNCHANGED callVars
    /\ UNCHANGED progVars
    /\ UNCHANGED simVars
    /\ stream = "err"
    /\ Return([ok |-> FALSE, err |-> ErrRead])
    /\ UNCHANGED <<goos, device, op, timedOut, cancelled, log,
                   setCalls, lastSet, clock, shown>>

\* The device is unplugged: reads of the handle reach end of stream.
Unplug ==
    /\ fileOpen
    /\ UNCHANGED callVars
    /\ UNCHANGED progVars
    /\ UNCHANGED simVars
    /\ stream = "open"
    /\ stream' = "eof"
    /\ UNCHANGED <<goos, device, op, pc, fileOpen, timedOut, cancelled, log,
                   setCalls, lastSet, clock, result, shown, setFailed, handles>>

\* The device fails: reads of the handle return an error.
Fault ==
    /\ fileOpen
    /\ UNCHANGED callVars
    /\ UNCHANGED progVars
    /\ UNCHANGED simVars
    /\ stream = "open"
    /\ stream' = "err"
    /\ UNCHANGED <<goos, device, op, pc, fileOpen, timedOut, cancelled, log,
                   setCalls, lastSet, clock, result, shown, setFailed, handles>>

\* The duration given to time.After has passed.
TimerFire ==
    /\ HasTimeout(op)
    /\ UNCHANGED callVars
    /\ UNCHANGED progVars
    /\ UNCHANGED simVars
    /\ pc \in {"select", "scan"}
    /\ ~timedOut
    /\ timedOut' = TRUE
    /\ UNCHANGED <<goos, device, op, pc, fileOpen, stream, cancelled, log,
                   setCalls, lastSet, clock, result, shown, setFailed, handles>>

\* g.Cancel() is called (the interrupt handler, a caller's defer).
Cancel ==
    /\ ~cancelled
    /\ UNCHANGED callVars
    /\ UNCHANGED progVars
    /\ UNCHANGED simVars
    /\ cancelled' = TRUE
    /\ UNCHANGED <<goos, device, op, pc, fileOpen, stream, timedOut, log,
                   setCalls, lastSet, clock, result, shown, setFailed, handles>>

Next ==
    \/ \E o \in Methods : Invoke(o)
    \/ Configure
    \/ Select
    \/ ScanLine
    \/ ScanEOF
    \/ ScanError
    \/ Unplug
    \/ Fault
    \/ TimerFire
    \/ Cancel

Spec == Init /\ [][Next]_vars

\* The steps of the program itself are taken when they can be, and time
\* passes; the device owes nothing: ScanLine, Unplug and Fault are not fair.
FairSpec ==
    /\ Spec
    /\ WF_vars(Configure)
    /\ WF_vars(Select)
    /\ WF_vars(ScanEOF)
    /\ WF_vars(ScanError)
    /\ WF_vars(TimerFire)

(***************************************************************************)
(* pkg/device and main                                                     *)
(***************************************************************************)
ErrNoGPSDevices == "no GPS devices found"

\* The device paths of the model in the order filepath.Glob and the loop
\* over COM1..COM16 give them.
PathOrder == <<"/dev/ttyACM0", "/dev/ttyUSB0", "COM3">>

\* filepath.Glob(prefix*) on a file system that holds the paths fs.
Glob(fs, prefix) ==
    SelectSeq(PathOrder, LAMBDA p : p \in fs /\ HasPrefix(p, prefix))

\* FindGPSDevices on a file system that holds the paths fs (the serial ports
\* /dev/ttyS*, looked at only when there is neither a USB nor an ACM device,
\* are not among the paths of the model).
FindGPSDevices(os, fs) ==
    IF os = "windows"
    THEN LET found == Glob(fs, "COM")
         IN  IF Len(found) = 0 THEN [err |-> ErrNoGPSDevices, devices |-> <<>>]
             ELSE [err |-> NoErr, devices |-> found]
    ELSE IF os \in UnixLike
    THEN LET found == Glob(fs, "/dev/ttyUSB") \o Glob(fs, "/dev/ttyACM")
         IN  IF Len(found) = 0 THEN [err |-> ErrNoGPSDevices, devices |-> <<>>]
             ELSE [err |-> NoErr, devices |-> found]
    ELSE [err |-> ErrUnsupportedOS, devices |-> <<>>]

\* The paths that can exist on a platform.
PathsOf(os) ==
    IF os = "windows" THEN {"COM3"} ELSE {"/dev/ttyUSB0", "/dev/ttyACM0"}

\* The program has been started; nothing of main has run.
MainInit ==
    /\ goos \in {"linux", "windows", "plan9"}
    /\ device = ""
    /\ SessionInit
    /\ NoSimulator
    /\ NoCall
    /\ mainPc = "start"
    /\ present \in SUBSET PathsOf(goos)
    /\ seen = {}
    /\ devices = <<>>
    /\ selected = ""
    /\ printed = {}
    /\ sigChan = 0
    /\ handler = "off"
    /\ confirmed = {}
    /\ removed = {}

\* What a step of main leaves alone in the session when it makes no call.
NoSessionStep ==
    /\ UNCHANGED <<goos, op, pc, fileOpen, stream, timedOut, log, setCalls, lastSet,
                   clock, result, shown, setFailed, handles>>
    /\ UNCHANGED simVars

\* gps.NewGPSTimeSync(path, ...): a new instance with a context of its own.
NewGPSTimeSync(path) ==
    /\ device' = path
    /\ cancelled' = FALSE

\* The process ends: log.Fatal, os.Exit, or main returns.
Exit ==
    /\ mainPc' = "exited"
    /\ handler' = "off"

\* The positions of main inside device.MonitorDevices.
MonitorPcs == {"monitorWait", "visit", "probeNew", "probing", "checkRemoved"}

\* What is printed about a path.
Reported(kind, path) == <<kind, path>>

MarkSeenForgets(seenDevices, path) == seenDevices

\* seenDevices[device] = true
MarkSeen(seenDevices, path) == seenDevices \cup {path}

\* The root check of main fails: log.Fatal.
FatalNotRoot ==
    /\ mainPc = "start"
    /\ goos # "windows"
    /\ Exit
    /\ NoSessionStep
    /\ UNCHANGED callVars
    /\ UNCHANGED <<device, cancelled, present, seen, devices, selected, printed,
                   sigChan, confirmed, removed>>

\* -m or --monitor: main calls device.MonitorDevices after signal.Notify.
StartMonitor ==
    /\ mainPc = "start"
    /\ mainPc' = "monitorWait"
    /\ seen' = {}
    /\ NoSessionStep
    /\ UNCHANGED callVars
    /\ UNCHANGED <<device, cancelled, present, devices, selected, printed,
                   sigChan, handler, confirmed, removed>>

\* -d or --device with a path: the instance that probes it is created.
StartDevice(path) ==
    /\ mainPc = "start"
    /\ selected' = path
    /\ NewGPSTimeSync(path)
    /\ mainPc' = "cliProbe"
    /\ NoSessionStep
    /\ UNCHANGED callVars
    /\ UNCHANGED <<present, seen, devices, printed, sigChan, handler,
                   confirmed, removed>>

\* No -d and no -m: main searches for devices and lists them, or log.Fatalf.
StartSearch ==
    /\ mainPc = "start"
    /\ LET found == FindGPSDevices(goos, present)
       IN  IF found.err # NoErr
           THEN Exit /\ UNCHANGED devices
           ELSE /\ devices' = found.devices
                /\ mainPc' = "choose"
                /\ UNCHANGED handler
    /\ NoSessionStep
    /\ UNCHANGED callVars
    /\ UNCHANGED <<device, cancelled, present, seen, selected, printed,
                   sigChan, confirmed, removed>>

\* gpsInstance.IsGPSDevice(selectedDevice) is called for the -d device.
ProbeSpecified ==
    /\ mainPc = "cliProbe"
    /\ Call("probe")
    /\ mainPc' = "cliProbing"
    /\ UNCHANGED <<present, seen, devices, selected, printed, sigChan, handler,
                   confirmed, removed>>

\* The instance of the menu is created and the goroutine that waits for a
\* signal is started.
EnterMenu ==
    /\ NewGPSTimeSync(selected)
    /\ handler' = "waiting"
    /\ mainPc' = "menu"

\* The probe of the -d device has returned: log.Fatalf on an error or on
\* false, the menu otherwise.
AfterProbeSpecified ==
    /\ mainPc = "cliProbing"
    /\ pc = "idle"
    /\ confirmed' = (IF result.ok THEN confirmed \cup {device} ELSE confirmed)
    /\ IF result.err # NoErr \/ ~result.ok
       THEN Exit /\ UNCHANGED <<device, cancelled>>
       ELSE EnterMenu
    /\ NoSessionStep
    /\ UNCHANGED callVars
    /\ UNCHANGED <<present, seen, devices, selected, printed, sigChan, removed>>

\* The user answers q at the selection prompt: os.Exit(0).
QuitSelection ==
    /\ mainPc = "choose"
    /\ Exit
    /\ NoSessionStep
    /\ UNCHANGED callVars
    /\ UNCHANGED <<device, cancelled, present, seen, devices, selected, printed,
                   sigChan, confirmed, removed>>

\* The user answers a number of the list: the instance that probes the
\* device is created (any other answer asks again).
ChooseDevice(index) ==
    /\ mainPc = "choose"
    /\ index \in 1..Len(devices)
    /\ selected' = devices[index]
    /\ NewGPSTimeSync(devices[index])
    /\ mainPc' = "selProbe"
    /\ NoSessionStep
    /\ UNCHANGED callVars
    /\ UNCHANGED <<present, seen, devices, printed, sigChan, handler,
                   confirmed, removed>>

\* gpsInstance.IsGPSDevice(selectedDevice) is called for the chosen device.
ProbeChosen ==
    /\ mainPc = "selProbe"
    /\ Call("probe")
    /\ mainPc' = "selProbing"
    /\ UNCHANGED <<present, seen, devices, selected, printed, sigChan, handler,
                   confirmed, removed>>

AfterChosenBreaksOnError(r) ==
    IF r.err # NoErr \/ r.ok THEN "break" ELSE "again"

\* Where the selection loop goes after the probe of the chosen device.
AfterChosen(r) ==
    IF r.err # NoErr THEN "again"
    ELSE IF r.ok THEN "break"
    ELSE "again"

\* The probe of the chosen device has returned.
AfterProbeChosen ==
    /\ mainPc = "selProbing"
    /\ pc = "idle"
    /\ confirmed' = (IF result.ok THEN confirmed \cup {device} ELSE confirmed)
    /\ IF AfterChosen(result) = "break"
       THEN EnterMenu
       ELSE mainPc' = "choose" /\ UNCHANGED <<device, cancelled, handler>>
    /\ NoSessionStep
    /\ UNCHANGED callVars
    /\ UNCHANGED <<present, seen, devices, selected, printed, sigChan, removed>>

\* Menu option 1 or 2: gpsInstance.SyncTime() or gpsInstance.MonitorGPS().
MenuCall(o) ==
    /\ mainPc = "menu"
    /\ o \in {"sync", "monitor"}
    /\ Call(o)
    /\ mainPc' = (IF o = "sync" THEN "inSync" ELSE "inMonitor")
    /\ UNCHANGED <<present, seen, devices, selected, printed, sigChan, handler,
                   confirmed, removed>>

\* The call of the menu has returned; its error, if any, is logged.
MenuAgain ==
    /\ mainPc \in {"inSync", "inMonitor"}
    /\ pc = "idle"
    /\ mainPc' = "menu"
    /\ NoSessionStep
    /\ UNCHANGED callVars
    /\ UNCHANGED <<device, cancelled, present, seen, devices, selected, printed,
                   sigChan, handler, confirmed, removed>>

\* Menu option 3: main returns.
MenuExit ==
    /\ mainPc = "menu"
    /\ Exit
    /\ NoSessionStep
    /\ UNCHANGED callVars
    /\ UNCHANGED <<device, cancelled, present, seen, devices, selected, printed,
                   sigChan, confirmed, removed>>

\* The goroutine of main receives from sigChan and cancels the instance of
\* the menu; it receives once.
HandleSignal ==
    /\ handler = "waiting"
    /\ sigChan = 1
    /\ sigChan' = 0
    /\ handler' = "done"
    /\ cancelled' = TRUE
    /\ NoSessionStep
    /\ UNCHANGED callVars
    /\ UNCHANGED <<device, mainPc, present, seen, devices, selected, printed,
                   confirmed, removed>>

\* SIGINT or SIGTERM before signal.Notify: the process is terminated.
SignalKills ==
    /\ mainPc = "start"
    /\ Exit
    /\ NoSessionStep
    /\ UNCHANGED callVars
    /\ UNCHANGED <<device, cancelled, present, seen, devices, selected, printed,
                   sigChan, confirmed, removed>>

\* SIGINT or SIGTERM after signal.Notify: the signal is put into sigChan (a
\* signal that finds the channel full is dropped).
Signal ==
    /\ mainPc \notin {"start", "exited"}
    /\ sigChan = 0
    /\ sigChan' = 1
    /\ NoSessionStep
    /\ UNCHANGED callVars
    /\ UNCHANGED <<device, cancelled, mainPc, present, seen, devices, selected,
                   printed, handler, confirmed, removed>>

\* The interval of MonitorDevices has passed: FindGPSDevices is called.
Poll ==
    /\ mainPc = "monitorWait"
    /\ LET found == FindGPSDevices(goos, present)
       IN  IF found.err # NoErr /\ found.err # ErrNoGPSDevices
           THEN Exit /\ UNCHANGED <<devices, printed>>
           ELSE /\ devices' = found.devices
                /\ printed' = {}
                /\ mainPc' = "visit"
                /\ UNCHANGED handler
    /\ NoSessionStep
    /\ UNCHANGED callVars
    /\ UNCHANGED <<device, cancelled, present, seen, selected, sigChan,
                   confirmed, removed>>

\* The loop over devices meets a path that is in seenDevices.
SkipSeen ==
    /\ mainPc = "visit"
    /\ devices # <<>>
    /\ Head(devices) \in seen
    /\ devices' = Tail(devices)
    /\ NoSessionStep
    /\ UNCHANGED callVars
    /\ UNCHANGED <<device, cancelled, mainPc, present, seen, selected, printed,
                   sigChan, handler, confirmed, removed>>

\* The loop over devices meets a path that is not in seenDevices: it is
\* reported, put into seenDevices, and an instance is created to probe it.
NewDevice ==
    /\ mainPc = "visit"
    /\ devices # <<>>
    /\ Head(devices) \notin seen
    /\ printed' = printed \cup {Reported("new", Head(devices))}
    /\ seen' = MarkSeen(seen, Head(devices))
    /\ NewGPSTimeSync(Head(devices))
    /\ mainPc' = "probeNew"
    /\ NoSessionStep
    /\ UNCHANGED callVars
    /\ UNCHANGED <<present, devices, selected, sigChan, handler, confirmed,
                   removed>>

\* gpsInstance.IsGPSDevice(device) is called for the new path.
ProbeNew ==
    /\ mainPc = "probeNew"
    /\ Call("probe")
    /\ mainPc' = "probing"
    /\ UNCHANGED <<present, seen, devices, selected, printed, sigChan, handler,
                   confirmed, removed>>

\* AfterProbeNew, had MonitorDevices returned the error of a probe.
AfterProbeNewReturnsError ==
    /\ mainPc = "probing"
    /\ pc = "idle"
    /\ cancelled' = TRUE
    /\ confirmed' = (IF result.ok THEN confirmed \cup {device} ELSE confirmed)
    /\ printed' = (IF result.err # NoErr THEN printed
                   ELSE IF result.ok
                   THEN printed \cup {Reported("confirmed", device)}
                   ELSE printed \cup {Reported("not a GPS device", device)})
    /\ IF result.err # NoErr
       THEN Exit /\ UNCHANGED devices
       ELSE devices' = Tail(devices) /\ mainPc' = "visit" /\ UNCHANGED handler
    /\ NoSessionStep
    /\ UNCHANGED callVars
    /\ UNCHANGED <<device, present, seen, selected, sigChan, removed>>

\* The probe of the new path has returned: the instance is cancelled and the
\* outcome is printed (an error only in debug mode).
AfterProbeNew ==
    /\ mainPc = "probing"
    /\ pc = "idle"
    /\ cancelled' = TRUE
    /\ confirmed' = (IF result.ok THEN confirmed \cup {device} ELSE confirmed)
    /\ printed' = (IF result.err # NoErr THEN printed
                   ELSE IF result.ok
                   THEN printed \cup {Reported("confirmed", device)}
                   ELSE printed \cup {Reported("not a GPS device", device)})
    /\ devices' = Tail(devices)
    /\ mainPc' = "visit"
    /\ NoSessionStep
    /\ UNCHANGED callVars
    /\ UNCHANGED <<device, present, seen, selected, sigChan, handler, removed>>

GoneNever(seenDevices, fs) == {}

\* The paths of seenDevices for which os.Stat says that they do not exist.
Gone(seenDevices, fs) == {path \in seenDevices : path \notin fs}

\* The loop over devices is over: the loop over seenDevices reports and
\* deletes the paths that no longer exist, and the next interval begins.
CheckRemoved ==
    /\ mainPc = "visit"
    /\ devices = <<>>
    /\ printed' = printed \cup {Reported("removed", path) : path \in Gone(seen, present)}
    /\ seen' = seen \ Gone(seen, present)
    /\ removed' = removed \cup Gone(seen, present)
    /\ mainPc' = "monitorWait"
    /\ NoSessionStep
    /\ UNCHANGED callVars
    /\ UNCHANGED <<device, cancelled, present, devices, selected, sigChan,
                   handler, confirmed>>

\* A device is plugged in while MonitorDevices runs.
PlugIn(path) ==
    /\ mainPc \in MonitorPcs
    /\ path \in PathsOf(goos) \ present
    /\ present' = present \cup {path}
    /\ NoSessionStep
    /\ UNCHANGED callVars
    /\ UNCHANGED <<device, cancelled, mainPc, seen, devices, selected, printed,
                   sigChan, handler, confirmed, removed>>

\* A device is pulled out while MonitorDevices runs: its path is gone.
PullOut(path) ==
    /\ mainPc \in MonitorPcs
    /\ path \in present
    /\ present' = present \ {path}
    /\ NoSessionStep
    /\ UNCHANGED callVars
    /\ UNCHANGED <<device, cancelled, mainPc, seen, devices, selected, printed,
                   sigChan, handler, confirmed, removed>>

MainNext ==
    \/ FatalNotRoot
    \/ StartMonitor
    \/ \E path \in AllPaths : StartDevice(path)
    \/ StartSearch
    \/ ProbeSpecified
    \/ AfterProbeSpecified
    \/ QuitSelection
    \/ \E index \in 1..2 : ChooseDevice(index)
    \/ ProbeChosen
    \/ AfterProbeChosen
    \/ \E o \in {"sync", "monitor"} : MenuCall(o)
    \/ MenuAgain
    \/ MenuExit
    \/ HandleSignal
    \/ SignalKills
    \/ Signal
    \/ Poll
    \/ SkipSeen
    \/ NewDevice
    \/ ProbeNew
    \/ AfterProbeNew
    \/ CheckRemoved
    \/ \E path \in AllPaths : PlugIn(path)
    \/ \E path \in AllPaths : PullOut(path)
    \/ Configure
    \/ Select
    \/ ScanLine
    \/ ScanEOF
    \/ ScanError
    \/ Unplug
    \/ Fault
    \/ TimerFire

MainSpec == MainInit /\ [][MainNext]_vars

\* Every step of main and of a call that can be taken is taken; signals,
\* devices and the user's answers are up to the environment.
FairMainSpec ==
    /\ MainSpec
    /\ WF_vars(Poll)
    /\ WF_vars(SkipSeen)
    /\ WF_vars(NewDevice)
    /\ WF_vars(ProbeNew)
    /\ WF_vars(AfterProbeNew)
    /\ WF_vars(CheckRemoved)
    /\ WF_vars(HandleSignal)
    /\ WF_vars(Configure)
    /\ WF_vars(Select)
    /\ WF_vars(ScanEOF)
    /\ WF_vars(ScanError)
    /\ WF_vars(TimerFire)

(***************************************************************************)
(* ParseNMEATime on its own: the fields are given, or cut out of a line the *)
(* way SyncTime does it                                                    *)
(***************************************************************************)
TwoDigits(n) == DigitChars[(n \div 10) + 1] \o DigitChars[(n % 10) + 1]

\* The two-character years.
Years == {TwoDigits(n) : n \in 0..99}

TimeFields ==
    {"000000", "123519", "235959", "240000", "236000", "235960",
     "123519.00", "123519.99", "1235", "12351", "", "12a519", "1:3519"}

DateFields ==
    {d \o m \o y : d \in {"00", "01", "28", "29", "30", "31", "32"},
                   m \in {"00", "01", "02", "04", "12", "13"},
                   y \in {"00", "23", "24", "94", "99"}}
    \cup {dm \o y : dm \in {"2902", "3112"}, y \in Years}
    \cup {"", "23032", "2303240", "23o324", "2303-1"}

\* The lines whose fields are handed to ParseNMEATime.
ParseLines == LinesFor("sync") \cup {RMCExample}

ParseInit ==
    /\ goos = "linux" /\ device = "/dev/ttyUSB0"
    /\ SessionInit
    /\ NoSimulator
    /\ NoProgram
    /\ body = ""
    /\ scanned = 0
    /\ checksum = 0
    /\ encoded = ""
    /\ \/ /\ sentence = ""
          /\ timeField \in TimeFields
          /\ dateField \in DateFields
          /\ parsed = NoParse
       \/ /\ sentence \in ParseLines
          /\ timeField = ""
          /\ dateField = ""
          /\ parsed = [NoParse EXCEPT !.stage = "line"]

\* SyncTime: the line is a $GPRMC sentence of status A; its second and tenth
\* fields are the arguments of ParseNMEATime.
SplitSentence ==
    /\ parsed.stage = "line"
    /\ HasPrefix(sentence, "$GPRMC")
    /\ RMCUsable(Fields(sentence))
    /\ timeField' = Fields(sentence)[2]
    /\ dateField' = Fields(sentence)[10]
    /\ parsed' = [parsed EXCEPT !.stage = "fields"]
    /\ UNCHANGED <<sentence, body, scanned, checksum, encoded>>
    /\ UNCHANGED sessionVars
    /\ UNCHANGED progVars
    /\ UNCHANGED simVars

\* The call ParseNMEATime(timeField, dateField).
ParseFields ==
    /\ parsed.stage = "fields"
    /\ LET p == ParseNMEATime(timeField, dateField)
       IN  parsed' = [stage |-> "done", err |-> p.err, t |-> p.t]
    /\ UNCHANGED <<sentence, timeField, dateField, body, scanned, checksum, encoded>>
    /\ UNCHANGED sessionVars
    /\ UNCHANGED progVars
    /\ UNCHANGED simVars

ParseNext == SplitSentence \/ ParseFields

ParseSpec == ParseInit /\ [][ParseNext]_vars

(***************************************************************************)
(* The simulator: addChecksumAndCRLF                                       *)
(***************************************************************************)
\* The printable characters in the order of their byte values: from the
\* space (32) to the underscore (95), and from a (97) to the tilde (126).
AsciiFromSpace ==
    " !\"#$%&'()*+,-./0123456789:;<=>?@ABCDEFGHIJKLMNOPQRSTUVWXYZ[\\]^_"

AsciiFromLowerA == "abcdefghijklmnopqrstuvwxyz{|}~"

\* The printable characters, CR and LF, each with its byte.
ByteTable ==
    [c \in {Char(AsciiFromSpace, i) : i \in 1..Len(AsciiFromSpace)}
            \cup {Char(AsciiFromLowerA, i) : i \in 1..Len(AsciiFromLowerA)}
            \cup {"\r", "\n"} |->
        IF c = "\r" THEN 13
        ELSE IF c = "\n" THEN 10
        ELSE IF \E i \in 1..Len(AsciiFromSpace) : Char(AsciiFromSpace, i) = c
        THEN 31 + (CHOOSE i \in 1..Len(AsciiFromSpace) : Char(AsciiFromSpace, i) = c)
        ELSE 96 + (CHOOSE i \in 1..Len(AsciiFromLowerA) : Char(AsciiFromLowerA, i) = c)]

\* []byte(s)[i] for a one-character string.
ByteOf(c) == ByteTable[c]

\* a ^ b on non-negative integers.
RECURSIVE Xor(_, _)
Xor(a, b) ==
    IF a = 0 THEN b
    ELSE IF b = 0 THEN a
    ELSE 2 * Xor(a \div 2, b \div 2) + ((a + b) % 2)

UpperHexDigits == "0123456789ABCDEF"

LowerHexDigits == "0123456789abcdef"

\* The verb %X on a non-negative integer, with the digits given.
RECURSIVE FormatHex(_, _)
FormatHex(n, digits) ==
    IF n < 16 THEN Char(digits, n + 1)
    ELSE FormatHex(n \div 16, digits) \o Char(digits, (n % 16) + 1)

\* The width and flag of %02X: zeros in front up to two characters.
ZeroPad2(s) == IF Len(s) < 2 THEN "0" \o s ELSE s

\* FormatSentence, had it written the checksum with %02x.
FormatSentenceLowerCase(sentenceBody, sum) ==
    "$" \o sentenceBody \o "*" \o ZeroPad2(FormatHex(sum, LowerHexDigits)) \o "\r\n"

\* FormatSentence, had it written the checksum with %X.
FormatSentenceNoPadding(sentenceBody, sum) ==
    "$" \o sentenceBody \o "*" \o FormatHex(sum, UpperHexDigits) \o "\r\n"

\* fmt.Sprintf("$%s*%02X\r\n", sentenceBody, checksum)
FormatSentence(sentenceBody, sum) ==
    "$" \o sentenceBody \o "*" \o ZeroPad2(FormatHex(sum, UpperHexDigits)) \o "\r\n"

\* The characters made-up bodies are written with.
BodyChars == {"A", "@", "z", ",", "*", "$"}

RECURSIVE BodiesOfLen(_)
BodiesOfLen(n) ==
    IF n = 0 THEN {""}
    ELSE {b \o c : b \in BodiesOfLen(n - 1), c \in BodyChars}

\* The part of a sentence between its $ and its *.
BodyOf(line) == SubSeq(line, 2, Len(line) - 3)

\* The bodies handed to addChecksumAndCRLF: the made-up ones and those of
\* sentences writeNMEASentences builds.
Bodies ==
    UNION {BodiesOfLen(n) : n \in 0..MaxBody}
    \cup {BodyOf(line) : line \in {RMCValid, RMCOtherTalker, GGAValid, GSVValid,
                                  GSVGlonass, GSVGalileo}}

CodecInit ==
    /\ goos = "linux" /\ device = "/dev/ttyUSB0"
    /\ SessionInit
    /\ NoSimulator
    /\ NoProgram
    /\ sentence = ""
    /\ timeField = ""
    /\ dateField = ""
    /\ parsed = NoParse
    /\ body \in Bodies
    /\ scanned = 0
    /\ checksum = 0
    /\ encoded = ""

\* addChecksumAndCRLF: one turn of the loop, checksum ^= int(char).
XorByte ==
    /\ encoded = ""
    /\ scanned < Len(body)
    /\ checksum' = Xor(checksum, ByteOf(Char(body, scanned + 1)))
    /\ scanned' = scanned + 1
    /\ UNCHANGED <<sentence, timeField, dateField, parsed, body, encoded>>
    /\ UNCHANGED sessionVars
    /\ UNCHANGED progVars
    /\ UNCHANGED simVars

\* addChecksumAndCRLF: the loop is over, the sentence is formatted and returned.
FormatAndReturn ==
    /\ encoded = ""
    /\ scanned = Len(body)
    /\ encoded' = FormatSentence(body, checksum)
    /\ UNCHANGED <<sentence, timeField, dateField, parsed, body, scanned, checksum>>
    /\ UNCHANGED sessionVars
    /\ UNCHANGED progVars
    /\ UNCHANGED simVars

CodecNext == XorByte \/ FormatAndReturn

CodecSpec == CodecInit /\ [][CodecNext]_vars

(***************************************************************************)
(* The simulator: positions. A position is a whole number of units of 1e-7 *)
(* degrees, minutes are whole numbers of units of 1e-7 minutes.            *)
(***************************************************************************)
\* One degree.
Degree == 10000000

baseLatitude == 511173000

baseLongitude == -25166000

\* The verb %d on a non-negative integer.
RECURSIVE Itoa(_)
Itoa(n) ==
    IF n < 10 THEN DigitChars[n + 1]
    ELSE Itoa(n \div 10) \o DigitChars[(n % 10) + 1]

\* The flag 0 and a width: zeros in front up to width characters.
RECURSIVE ZeroPad(_, _)
ZeroPad(s, width) == IF Len(s) < width THEN ZeroPad("0" \o s, width) ELSE s

\* The verb %07.4f on minutes: rounded to four decimals (tieUp says which way
\* a value half way between two of them goes: the float64 next to it lies on
\* either side), two digits at least before the point.
FormatMinutes(m, tieUp) ==
    LET q == m \div 1000
        r == m % 1000
        rounded == IF r > 500 \/ (r = 500 /\ tieUp) THEN q + 1 ELSE q
    IN  ZeroPad(Itoa(rounded \div 10000), 2) \o "." \o ZeroPad(Itoa(rounded % 10000), 4)

MinutesAsFraction(absDeg, d) == (absDeg - d * Degree) * 100

\* m := (absDeg - float64(d)) * 60
MinutesOf(absDeg, d) == (absDeg - d * Degree) * 60

\* toNMEALat: the field and the hemisphere.
toNMEALat(deg, tieUp) ==
    LET absDeg == IF deg < 0 THEN -deg ELSE deg
        ns == IF deg < 0 THEN "S" ELSE "N"
        d == absDeg \div Degree
        m == MinutesOf(absDeg, d)
    IN  <<ZeroPad(Itoa(d), 2) \o FormatMinutes(m, tieUp), ns>>

\* toNMEALon: the field and the hemisphere.
toNMEALon(deg, tieUp) ==
    LET absDeg == IF deg < 0 THEN -deg ELSE deg
        ew == IF deg < 0 THEN "W" ELSE "E"
        d == absDeg \div Degree
        m == MinutesOf(absDeg, d)
    IN  <<ZeroPad(Itoa(d), 3) \o FormatMinutes(m, tieUp), ew>>

\* What lines 121-122 of writeNMEASentences compute for a position.
EncodedPosition(pos, tieUpLat, tieUpLon) ==
    LET lat == toNMEALat(pos.Latitude, tieUpLat)
        lon == toNMEALon(pos.Longitude, tieUpLon)
    IN  [lat |-> lat[1], ns |-> lat[2], lon |-> lon[1], ew |-> lon[2]]

\* Which way FormatMinutes may round the minutes of a position.
TieChoices(deg) ==
    IF ((IF deg < 0 THEN -deg ELSE deg) % Degree) * 60 % 1000 = 500
    THEN BOOLEAN ELSE {FALSE}

\* The whole degrees and the fractions of a degree positions are made of.
LatDegrees == {0, 1, 9, 51, 89, 90}

LonDegrees == {0, 2, 9, 10, 99, 100, 179, 180}

Fractions ==
    {0, 1, 25, 75, 1173000, 4999999, 5000000, 9999991, 9999992, 9999999}

Latitudes ==
    {v \in {sign * (d * Degree + f) : sign \in {1, -1}, d \in LatDegrees, f \in Fractions} :
        -90 * Degree <= v /\ v <= 90 * Degree}

Longitudes ==
    {v \in {sign * (d * Degree + f) : sign \in {1, -1}, d \in LonDegrees, f \in Fractions} :
        -180 * Degree <= v /\ v <= 180 * Degree}

\* toNMEALat and toNMEALon on their own: a position is given.
PositionInit ==
    /\ goos = "linux" /\ device = "/dev/ttyUSB0"
    /\ SessionInit
    /\ NoCall
    /\ NoProgram
    /\ talkerID = ""
    /\ numSatellites = 0
    /\ movementEnabled = FALSE
    /\ movementSpeed = 0
    /\ movementBearing = 0
    /\ simPc = "position"
    /\ \E lat \in Latitudes, lon \in Longitudes :
           currentPos = [Latitude |-> lat, Longitude |-> lon]
    /\ nmeaPos = NoNMEAPos
    /\ sentences = <<>>
    /\ numSVInView = 0
    /\ selectedPRNs = <<>>
    /\ cursor = 0
    /\ retry = 0
    /\ port = <<>>

\* latNMEA, ns := toNMEALat(...); lonNMEA, ew := toNMEALon(...)
EncodePosition ==
    /\ simPc = "position"
    /\ nmeaPos = NoNMEAPos
    /\ \E tieUpLat \in TieChoices(currentPos.Latitude),
          tieUpLon \in TieChoices(currentPos.Longitude) :
           nmeaPos' = EncodedPosition(currentPos, tieUpLat, tieUpLon)
    /\ UNCHANGED <<talkerID, numSatellites, movementEnabled, movementSpeed,
                   movementBearing, simPc, currentPos, sentences,
                   numSVInView, selectedPRNs, cursor, retry, port>>
    /\ UNCHANGED sessionVars
    /\ UNCHANGED callVars
    /\ UNCHANGED progVars

PositionNext == EncodePosition

PositionSpec == PositionInit /\ [][PositionNext]_vars

(***************************************************************************)
(* The simulator: main and writeNMEASentences                              *)
(***************************************************************************)
UpperLetters == "ABCDEFGHIJKLMNOPQRSTUVWXYZ"

LowerLetters == "abcdefghijklmnopqrstuvwxyz"

\* strings.ToUpper on ASCII text.
RECURSIVE ToUpper(_)
ToUpper(s) ==
    IF Len(s) = 0 THEN ""
    ELSE LET c == Char(s, 1)
             k == IndexFrom(LowerLetters, c, 1)
         IN  (IF k = 0 THEN c ELSE Char(UpperLetters, k))
             \o ToUpper(SubSeq(s, 2, Len(s)))

\* The talker IDs main accepts.
ValidTalkers == {"GP", "GN", "GL", "GA"}

ClampSatsFromBelowOnly(n) == IF n < 0 THEN 0 ELSE n

\* main: numSatellites outside 0..12 is moved to the nearest of the two.
ClampSats(n) == IF n < 0 THEN 0 ELSE IF n > 12 THEN 12 ELSE n

gpsPRNs == [k \in 1..32 |-> k]

glonassPRNs == [k \in 1..32 |-> 64 + k]

\* availablePRNs for a talker ID.
AvailablePRNs(talker) ==
    IF ToUpper(talker) = "GN" THEN gpsPRNs \o glonassPRNs
    ELSE IF ToUpper(talker) = "GP" THEN gpsPRNs
    ELSE IF ToUpper(talker) = "GL" THEN glonassPRNs
    ELSE gpsPRNs

Reverse(seq) == [k \in 1..Len(seq) |-> seq[Len(seq) + 1 - k]]

\* What math/rand gives in a cycle, two cases of it: the order rand.Shuffle
\* leaves availablePRNs in, elevation, azimuth and snr of the records, and
\* the formatted hdop and altitude.
Randoms ==
    {[reversed |-> FALSE, elevation |-> 0, azimuth |-> 0, snr |-> 20,
      hdop |-> "1.0", altitude |-> "118.4"],
     [reversed |-> TRUE, elevation |-> 89, azimuth |-> 359, snr |-> 69,
      hdop |-> "2.0", altitude |-> "128.4"]}

\* numSatellites + rand.Intn(5), kept between numSatellites and 20.
SVInView(sats, extra) ==
    LET n == sats + extra
        atLeast == IF n < sats THEN sats ELSE n
    IN  IF atLeast > 20 THEN 20 ELSE atLeast

GSVMessageCountRoundedDown(inView) == inView \div 4

\* numGSVMsgs := (numSVInView + 3) / 4
GSVMessageCount(inView) == (inView + 3) \div 4

\* The XOR of the bytes lo..hi of a string (the loop of addChecksumAndCRLF,
\* taken in halves: XOR is associative).
RECURSIVE XorRange(_, _, _)
XorRange(s, lo, hi) ==
    IF lo > hi THEN 0
    ELSE IF lo = hi THEN ByteOf(Char(s, lo))
    ELSE LET mid == (lo + hi) \div 2
         IN  Xor(XorRange(s, lo, mid), XorRange(s, mid + 1, hi))

\* addChecksumAndCRLF, in one piece.
addChecksumAndCRLF(sentenceBody) ==
    FormatSentence(sentenceBody, XorRange(sentenceBody, 1, Len(sentenceBody)))

\* The records of GSV message msgNum: the inner loop over sv.
RECURSIVE GSVRecords(_, _, _, _, _)
GSVRecords(msgNum, sv, inView, prns, sky) ==
    LET svIndex == (msgNum - 1) * 4 + sv
    IN  IF sv >= 4 \/ svIndex >= inView THEN ""
        ELSE "," \o ZeroPad(Itoa(prns[svIndex + 1]), 2)
             \o "," \o ZeroPad(Itoa(sky.elevation), 2)
             \o "," \o ZeroPad(Itoa(sky.azimuth), 3)
             \o "," \o ZeroPad(Itoa(sky.snr), 2)
             \o GSVRecords(msgNum, sv + 1, inView, prns, sky)

\* The GSV sentences from message msgNum on: the outer loop over i.
RECURSIVE GSVSentences(_, _, _, _, _, _)
GSVSentences(talker, msgNum, numGSVMsgs, inView, prns, sky) ==
    IF msgNum > numGSVMsgs THEN <<>>
    ELSE <<addChecksumAndCRLF(talker \o "GSV," \o Itoa(numGSVMsgs) \o "," \o Itoa(msgNum)
                              \o "," \o ZeroPad(Itoa(inView), 2)
                              \o GSVRecords(msgNum, 0, inView, prns, sky))>>
         \o GSVSentences(talker, msgNum + 1, numGSVMsgs, inView, prns, sky)

\* The RMC sentence of a cycle.
RMCSentence(talker, timeStr, dateStr, pos) ==
    addChecksumAndCRLF(talker \o "RMC," \o timeStr \o ",A," \o pos.lat \o "," \o pos.ns
                       \o "," \o pos.lon \o "," \o pos.ew \o ",0.1,0.0," \o dateStr \o ",,,A")

\* The GGA sentence of a cycle.
GGASentence(talker, timeStr, pos, sats, hdop, altitude) ==
    addChecksumAndCRLF(talker \o "GGA," \o timeStr \o "," \o pos.lat \o "," \o pos.ns
                       \o "," \o pos.lon \o "," \o pos.ew \o ",1," \o ZeroPad(Itoa(sats), 2)
                       \o "," \o hdop \o "," \o altitude \o ",M,0.0,M,,0000")

\* The values of the flags -talker and -sats.
TalkerFlags == {"GP", "gn", "GL", "GA", "GPS", "gb"}

SatsFlags == {-1, 0, 7, 12, 13}

\* What time.Now().UTC() is formatted to.
TimeStrings == {<<"123519.00", "230324">>}

maxRetries == 3

GivesUpOneLate(failed) == failed > maxRetries

\* The retry loop is over without a successful write.
GivesUp(failed) == failed >= maxRetries

\* calculateNewPosition for a bearing of 0 or 180 degrees and a distance of
\* less than 180 degrees.  cos(bearingRad) is 1 or -1, so the argument of
\* math.Asin is the sine of sum, the latitude moved by the distance: lat2 is
\* sum, folded back at a pole.  The second argument of math.Atan2 is
\* cos(lat1) * cos(sum): negative when sum is beyond a pole.  The first is a
\* zero (bearing 0) or a number of the order of 1e-16 (bearing 180) with the
\* sign of the distance: math.Atan2 is then pi with that sign beyond a pole,
\* and 0 otherwise.  lon2 is returned as it is.
calculateNewPosition(current, speed, bearing, elapsed) ==
    LET distance == speed * elapsed
        sum == current.Latitude + (IF bearing = 0 THEN distance ELSE -distance)
        lat2 == IF sum > 90 * Degree THEN 180 * Degree - sum
                ELSE IF sum < -90 * Degree THEN -180 * Degree - sum
                ELSE sum
        turn == IF -90 * Degree <= sum /\ sum <= 90 * Degree THEN 0
                ELSE IF distance < 0 THEN -180 * Degree
                ELSE 180 * Degree
    IN  [Latitude |-> lat2, Longitude |-> current.Longitude + turn]

\* The positions from which the movement is followed: those on the meridian
\* of the start (every passage over a pole moves the longitude by another
\* 180 degrees).
Followed(pos) == pos.Longitude = baseLongitude

\* time.Since(lastUpdate) at a tick, in seconds.
ElapsedSeconds == {1}

\* The values of the flags -move, -speed and -bearing; the speed of the first
\* is the default, 0.0001 degrees per second.
MoveFlags ==
    {[move |-> FALSE, speed |-> 1000, bearing |-> 0]}
    \cup {[move |-> TRUE, speed |-> speed, bearing |-> bearing] :
              speed \in {-50 * Degree, 30 * Degree}, bearing \in {0, 180}}

\* The simulator has been started with its flags.
SimInit ==
    /\ goos \in {"linux", "windows", "plan9"}
    /\ device = ""
    /\ SessionInit
    /\ NoCall
    /\ NoProgram
    /\ talkerID \in TalkerFlags
    /\ numSatellites \in SatsFlags
    /\ \E m \in MoveFlags :
           /\ m.move => (talkerID = "GP" /\ numSatellites = 7)
           /\ movementEnabled = m.move
           /\ movementSpeed = m.speed
           /\ movementBearing = m.bearing
    /\ simPc = "main"
    /\ currentPos = [Latitude |-> baseLatitude, Longitude |-> baseLongitude]
    /\ nmeaPos = NoNMEAPos
    /\ sentences = <<>>
    /\ numSVInView = 0
    /\ selectedPRNs = <<>>
    /\ cursor = 0
    /\ retry = 0
    /\ port = <<>>

\* What the steps of the simulator leave alone.
SimFrame ==
    /\ UNCHANGED sessionVars
    /\ UNCHANGED callVars
    /\ UNCHANGED progVars

\* main: the flags are checked and the port is opened (a PTY on linux, the
\* COM port of -com on windows); log.Fatalf ends the program.
SimMain ==
    /\ simPc = "main"
    /\ IF ToUpper(talkerID) \notin ValidTalkers
       THEN /\ simPc' = "exited"
            /\ UNCHANGED <<talkerID, numSatellites>>
       ELSE /\ talkerID' = ToUpper(talkerID)
            /\ numSatellites' = ClampSats(numSatellites)
            /\ \E opened \in BOOLEAN :
                   simPc' = (IF goos \in {"linux", "windows"} /\ opened
                             THEN "tick" ELSE "exited")
    /\ UNCHANGED <<movementEnabled, movementSpeed, movementBearing>>
    /\ UNCHANGED <<currentPos, nmeaPos, sentences, numSVInView, selectedPRNs,
                   cursor, retry, port>>
    /\ SimFrame

\* writeNMEASentences: the ticker fires, the position is moved when -move is
\* given, and the sentences of the cycle are built.
Tick ==
    /\ simPc = "tick"
    /\ movementEnabled => Followed(currentPos)
    /\ \E elapsed \in ElapsedSeconds :
           LET moved == IF movementEnabled
                        THEN calculateNewPosition(currentPos, movementSpeed,
                                                  movementBearing, elapsed)
                        ELSE currentPos
           IN  /\ currentPos' = moved
               /\ \E now \in TimeStrings, extra \in 0..4, sky \in Randoms,
                      tieUpLat \in TieChoices(moved.Latitude),
                      tieUpLon \in TieChoices(moved.Longitude) :
                       LET pos == EncodedPosition(moved, tieUpLat, tieUpLon)
                           inView == SVInView(numSatellites, extra)
                           shuffled == IF sky.reversed
                                       THEN Reverse(AvailablePRNs(talkerID))
                                       ELSE AvailablePRNs(talkerID)
                           prns == SubSeq(shuffled, 1, inView)
                       IN  /\ nmeaPos' = pos
                           /\ numSVInView' = inView
                           /\ selectedPRNs' = prns
                           /\ sentences' =
                                  <<RMCSentence(talkerID, now[1], now[2], pos),
                                    GGASentence(talkerID, now[1], pos, numSatellites,
                                                sky.hdop, sky.altitude)>>
                                  \o GSVSentences(talkerID, 1, GSVMessageCount(inView),
                                                  inView, prns, sky)
    /\ cursor' = 0
    /\ retry' = 0
    /\ port' = <<>>
    /\ simPc' = "write"
    /\ UNCHANGED <<talkerID, numSatellites, movementEnabled, movementSpeed,
                   movementBearing>>
    /\ SimFrame

\* writer.Write returns no error: the loop goes on to the next sentence, and
\* to the next tick after the last one.
WriteSucceeds ==
    /\ simPc = "write"
    /\ port' = Append(port, sentences[cursor + 1])
    /\ cursor' = cursor + 1
    /\ retry' = 0
    /\ simPc' = (IF cursor + 1 = Len(sentences) THEN "tick" ELSE "write")
    /\ UNCHANGED <<talkerID, numSatellites, movementEnabled, movementSpeed,
                   movementBearing, currentPos, nmeaPos, sentences,
                   numSVInView, selectedPRNs>>
    /\ SimFrame

\* writer.Write returns an error: after retryDelay the sentence is tried
\* again, or writeNMEASentences returns and main ends.
WriteFails ==
    /\ simPc = "write"
    /\ retry' = retry + 1
    /\ simPc' = (IF GivesUp(retry + 1) THEN "returned" ELSE "write")
    /\ UNCHANGED <<talkerID, numSatellites, movementEnabled, movementSpeed,
                   movementBearing, currentPos, nmeaPos, sentences,
                   numSVInView, selectedPRNs, cursor, port>>
    /\ SimFrame

SimNext ==
    \/ SimMain
    \/ Tick
    \/ WriteSucceeds
    \/ WriteFails

SimSpec == SimInit /\ [][SimNext]_vars

(***************************************************************************)
(* Properties                                                              *)
(***************************************************************************)
Running(o) == op = o /\ pc # "idle"

Returned(o) == op = o /\ pc = "idle"

LastLine(l) == l[Len(l)]

\* The step is a read of one more line by the running call.
ReadsLine == Len(log') = Len(log) + 1

TalkerIDs == {"GP", "GN", "GL", "GA"}

\* A sentence of type RMC, whatever its talker ID.
IsRMC(line) == Len(line) >= 6 /\ Char(line, 1) = "$" /\ SubSeq(line, 4, 6) = "RMC"

\* The status field of an RMC sentence ("" when the sentence has none).
StatusOf(line) == IF Len(Fields(line)) >= 3 THEN Fields(line)[3] ELSE ""

\* A line SyncTime hands to ParseNMEATime: a $GPRMC sentence of status A with
\* its time and date fields.
StatusARMC(line) ==
    /\ HasPrefix(line, "$GPRMC")
    /\ Len(Fields(line)) >= 10
    /\ StatusOf(line) = "A"

TimeAndDateParse(line) ==
    ParseNMEATime(Fields(line)[2], Fields(line)[10]).err = NoErr

\* The clock showing the time and date of a line whose fields parse.
ClockFrom(line) ==
    LET t == ParseNMEATime(Fields(line)[2], Fields(line)[10]).t
    IN  [date |-> DateOf(t), tod |-> TodOf(t)]

\* C1: in SyncTime, reading an RMC sentence whose status field is not A
\* (V, or anything else) makes no SetSystemTime call and leaves the clock as
\* it was; the line is skipped and the loop goes back to its select.
C1_VoidRMCNeverSetsClock ==
    [][(/\ op = "sync"
        /\ ReadsLine
        /\ IsRMC(LastLine(log'))
        /\ StatusOf(LastLine(log')) # "A")
       => (/\ setCalls' = setCalls
           /\ clock' = clock
           /\ pc' = "select")]_vars

C1_Witness ==
    /\ Running("sync")
    /\ pc = "select"
    /\ Len(log) = 1
    /\ IsRMC(log[1]) /\ StatusOf(log[1]) = "V"
    /\ setCalls = 0

\* C2: in SyncTime, the first status-A RMC sentence whose time and date parse
\* is the last line the call reads: SetSystemTime has been called exactly once
\* and the call has returned, with success when that call succeeded; and no
\* SyncTime call makes more than one SetSystemTime call.  (An RMC sentence is
\* here the sentence SyncTime looks for, $GPRMC.)
C2_FirstValidRMCSetsClockOnce ==
    op = "sync" =>
        /\ setCalls <= 1
        /\ \A i \in 1..Len(log) :
               (StatusARMC(log[i]) /\ TimeAndDateParse(log[i])) =>
                   /\ i = Len(log)
                   /\ setCalls = 1
                   /\ pc = "idle"
                   /\ lastSet = "ok" => result.err = NoErr

C2_Witness ==
    /\ Returned("sync")
    /\ Len(log) = 2
    /\ ~(StatusARMC(log[1]) /\ TimeAndDateParse(log[1]))
    /\ StatusARMC(log[2]) /\ TimeAndDateParse(log[2])
    /\ setCalls = 1
    /\ result.err = NoErr
    /\ clock = ClockFrom(log[2])

\* C3: once the timeout of a SyncTime call has fired, the call eventually
\* returns, and with ErrNoValidData unless a cancellation, a read error or
\* a sentence that set the clock ended it first; also when the stream stays
\* open and delivers nothing more.
C3_SyncTimeoutReturns ==
    (Running("sync") /\ pc \in {"select", "scan"} /\ timedOut)
        ~> (/\ Returned("sync")
            /\ \/ result.err = ErrNoValidData
               \/ result.err = ErrCanceled
               \/ result.err = ErrRead
               \/ setCalls > 0)

\* C4: once g.Ctx is cancelled during a call of IsGPSDevice, SyncTime or
\* MonitorGPS, the call eventually returns, also when the stream delivers
\* nothing more.
C4_CancelStopsLoop ==
    (pc \in {"select", "scan"} /\ cancelled) ~> (pc = "idle")

\* C5: when IsGPSDevice finds its timeout fired (and no cancellation) at the
\* top of the loop, it returns false and no error.
C5_ProbeTimeoutIsNotAnError ==
    [][(/\ op = "probe"
        /\ pc = "select"
        /\ timedOut
        /\ ~cancelled
        /\ pc' = "idle")
       => result' = [ok |-> FALSE, err |-> NoErr]]_vars

\* A line that begins with $ and a recognized talker ID.
Recognized(line) ==
    /\ Len(line) >= 3
    /\ Char(line, 1) = "$"
    /\ SubSeq(line, 2, 3) \in TalkerIDs

\* C6: IsGPSDevice returns (true, nil) on the first line that begins with $
\* and a recognized talker ID, whatever follows in the line: such a line is
\* the last one the call reads and, when the call returns true, the only such
\* line it has read.
C6_ProbeTrueOnFirstRecognizedLine ==
    op = "probe" =>
        /\ \A i \in 1..Len(log) :
               Recognized(log[i]) =>
                   /\ i = Len(log)
                   /\ pc = "idle"
                   /\ result = [ok |-> TRUE, err |-> NoErr]
        /\ (pc = "idle" /\ result.ok) =>
               /\ Len(log) > 0
               /\ Recognized(LastLine(log))
               /\ result.err = NoErr

C6_Witness ==
    /\ Returned("probe")
    /\ log = <<Proprietary, GGABadSum>>
    /\ result = [ok |-> TRUE, err |-> NoErr]

\* C7: when no call is running, no handle is open: every return of
\* IsGPSDevice, SyncTime and MonitorGPS has closed the handle the call opened.
C7_HandleClosedAfterReturn == pc = "idle" => ~fileOpen

C7_Witness ==
    /\ Returned("sync")
    /\ result.err = ErrConfigure
    /\ ~fileOpen

\* C8: when a read of SyncTime or MonitorGPS meets the end of the stream, the
\* call returns a read error.
C8_EndOfStreamIsAnError ==
    [][(/\ op \in {"sync", "monitor"}
        /\ pc = "scan"
        /\ stream = "eof"
        /\ pc' # "scan")
       => (pc' = "idle" /\ result'.err = ErrRead)]_vars

\* C9: in SyncTime, reading a status-A RMC sentence whose time or date does
\* not parse makes no SetSystemTime call and does not end the call, which goes
\* back to its select with the handle open; and a status-A RMC sentence that
\* parses, read later in the same call, makes the one SetSystemTime call,
\* which sets the clock to its time when it succeeds.
C9_ParseFailureIsSkipped ==
    /\ [][(/\ op = "sync"
           /\ ReadsLine
           /\ StatusARMC(LastLine(log'))
           /\ ~TimeAndDateParse(LastLine(log')))
          => (/\ pc' = "select"
              /\ fileOpen'
              /\ setCalls' = setCalls
              /\ clock' = clock)]_vars
    /\ [](\A i, j \in 1..Len(log) :
              (/\ op = "sync"
               /\ i < j
               /\ StatusARMC(log[i]) /\ ~TimeAndDateParse(log[i])
               /\ StatusARMC(log[j]) /\ TimeAndDateParse(log[j]))
              => (/\ setCalls = 1
                  /\ lastSet # "none"
                  /\ lastSet = "ok" => clock = ClockFrom(log[j])))

C9_Witness ==
    /\ Returned("sync")
    /\ log = <<RMCBadDate, RMCValid>>
    /\ setCalls = 1
    /\ lastSet = "ok"
    /\ clock = ClockFrom(RMCValid)

\* C10: when SetSystemTime fails in a SyncTime call, the call has returned
\* that error: the line that led to it is the last line read and the failed
\* call is the only SetSystemTime call; the instance is then idle, so that
\* SyncTime can be called on it again.
C10_SetFailureEndsTheCall ==
    (op = "sync" /\ lastSet \notin {"none", "ok"}) =>
        /\ pc = "idle"
        /\ result.err = lastSet
        /\ setCalls = 1
        /\ Len(log) > 0
        /\ StatusARMC(LastLine(log)) /\ TimeAndDateParse(LastLine(log))
        /\ \A i \in 1..(Len(log) - 1) :
               ~(StatusARMC(log[i]) /\ TimeAndDateParse(log[i]))
        /\ ENABLED Invoke("sync")

C10_Witness ==
    /\ setFailed
    /\ Returned("sync")
    /\ result.err = NoErr
    /\ lastSet = "ok"
    /\ clock = ClockFrom(LastLine(log))

\* C11: once the loop of MonitorGPS has started, the call returns only with
\* the cancellation error or a read error, and a step that reads a line,
\* whatever the line, is never a return: the loop goes back to its select
\* with the handle open.
C11_MonitorReturnsOnlyOnCancelOrReadError ==
    [][(op = "monitor" /\ pc \in {"select", "scan"})
       => (/\ pc' = "idle" => result'.err \in {ErrCanceled, ErrRead}
           /\ ReadsLine => (pc' = "select" /\ fileOpen'))]_vars

C11_Witness ==
    /\ Running("monitor")
    /\ pc = "select"
    /\ log = <<RMCFewFields, Proprietary>>
    /\ shown = ""

HexChars == "0123456789ABCDEFabcdef"

IsHex(c) == \E i \in 1..Len(HexChars) : Char(HexChars, i) = c

\* The shape a sentence must have on the wire: a leading $ and, at the end,
\* a * followed by two hexadecimal digits.
StructurallyValid(line) ==
    /\ Len(line) >= 4
    /\ Char(line, 1) = "$"
    /\ Char(line, Len(line) - 2) = "*"
    /\ IsHex(Char(line, Len(line) - 1))
    /\ IsHex(Char(line, Len(line)))

\* The sentence type of a line whose first field is $, a talker ID of two
\* characters and a type of three ("" for a first field of another shape).
SentenceType(line) ==
    IF Len(Fields(line)[1]) = 6 THEN SubSeq(line, 4, 6) ELSE ""

\* The display that belongs to a sentence type.
DisplayFor(type) ==
    IF type = "RMC" THEN "time and date"
    ELSE IF type = "GGA" THEN "position and satellite count"
    ELSE IF type = "GSV" THEN "satellites in view"
    ELSE "nothing"

\* What a printed line is a display of.
DisplayOf(text) ==
    IF HasPrefix(text, "Time: ") THEN "time and date"
    ELSE IF HasPrefix(text, "Latitude: ") THEN "position and satellite count"
    ELSE IF HasPrefix(text, "Satellites in view data: ") THEN "satellites in view"
    ELSE IF text = "" THEN "nothing"
    ELSE "something else"

\* A sentence that carries the fields its display is made of (and, for RMC,
\* the status A).
Displayable(line) ==
    LET n == Len(Fields(line))
        type == SentenceType(line)
    IN  \/ type = "RMC" /\ n >= 10 /\ StatusOf(line) = "A"
        \/ type = "GGA" /\ n >= 8
        \/ type = "GSV" /\ n >= 4

\* C12: when MonitorGPS reads a structurally valid sentence, what it prints
\* is the display of the sentence type or nothing: a sentence of type RMC, GGA
\* or GSV that carries the fields of its display gets that display (time and
\* date, position with satellite count, satellites in view), whatever its
\* talker ID and whether or not its checksum is right; a sentence of any other
\* type gets nothing.
C12_DisplayFollowsSentenceType ==
    [][(/\ op = "monitor"
        /\ ReadsLine
        /\ StructurallyValid(LastLine(log')))
       => LET line == LastLine(log')
              type == SentenceType(line)
          IN  /\ DisplayOf(shown') \in {DisplayFor(type), "nothing"}
              /\ Displayable(line) => DisplayOf(shown') = DisplayFor(type)
              /\ (Displayable(line) /\ type = "GGA")
                     => HasSuffix(shown', "Satellites: " \o Fields(line)[8])]_vars

C12_Witness ==
    /\ Running("monitor")
    /\ log = <<GGABadSum, GSVGlonass>>
    /\ DisplayOf(shown) = "satellites in view"

\* A status-A RMC sentence of a supported talker ID, with its time and date
\* fields.
SupportedStatusARMC(line) ==
    /\ Recognized(line)
    /\ SentenceType(line) = "RMC"
    /\ Len(Fields(line)) >= 10
    /\ StatusOf(line) = "A"

\* C13: in SyncTime, reading a status-A RMC sentence whose time and date
\* parse makes a SetSystemTime call and ends the call, for each of the talker
\* IDs GP, GN, GL and GA.
C13_EveryTalkerIsActionable ==
    [][(/\ op = "sync"
        /\ ReadsLine
        /\ SupportedStatusARMC(LastLine(log'))
        /\ TimeAndDateParse(LastLine(log')))
       => (/\ setCalls' = setCalls + 1
           /\ pc' = "idle")]_vars

\* What a finished call of ParseNMEATime returned.
Parsed == [err |-> parsed.err, t |-> parsed.t]

\* C14: ParseNMEATime returns ErrInvalidNMEAData and the zero time when the
\* time field has fewer than 6 characters or the date field has not exactly 6;
\* for a time field of more than 6 characters it returns what it returns for
\* the first 6 of them.
C14_FieldLengths ==
    parsed.stage = "done" =>
        /\ (Len(timeField) < 6 \/ Len(dateField) # 6)
               => Parsed = [err |-> ErrInvalidNMEAData, t |-> NoTime]
        /\ Len(timeField) > 6
               => Parsed = ParseNMEATime(SubSeq(timeField, 1, 6), dateField)

C14_Witness ==
    /\ parsed.stage = "done"
    /\ sentence = ""
    /\ timeField = "123519.99"
    /\ dateField = "290224"
    /\ parsed.err = NoErr
    /\ parsed.t.sec = 19

\* The days of month m in a year y of 2000..2099.
CalendarDays(m, y) ==
    IF m = 2 /\ y % 4 = 0 THEN 29
    ELSE <<31, 28, 31, 30, 31, 30, 31, 31, 30, 31, 30, 31>>[m]

\* A time field that begins with a time of day HHMMSS.
ValidTime(tf) ==
    /\ Len(tf) >= 6
    /\ AllDigits(SubSeq(tf, 1, 6))
    /\ Atoi(SubSeq(tf, 1, 2)) <= 23
    /\ Atoi(SubSeq(tf, 3, 4)) <= 59
    /\ Atoi(SubSeq(tf, 5, 6)) <= 59

\* A date field DDMMYY that is a day of the calendar of the year 2000+YY.
ValidDate(df) ==
    /\ Len(df) = 6
    /\ AllDigits(df)
    /\ Atoi(SubSeq(df, 3, 4)) \in 1..12
    /\ Atoi(SubSeq(df, 1, 2)) >= 1
    /\ Atoi(SubSeq(df, 1, 2))
           <= CalendarDays(Atoi(SubSeq(df, 3, 4)), 2000 + Atoi(SubSeq(df, 5, 6)))

\* C15: for a valid time HHMMSS and a valid date DDMMYY, ParseNMEATime
\* returns no error and the time with hour HH, minute MM, second SS, day DD,
\* month MM and year 2000+YY, for every YY in 00..99.
C15_TimestampOfValidFields ==
    (parsed.stage = "done" /\ ValidTime(timeField) /\ ValidDate(dateField)) =>
        Parsed = [err |-> NoErr,
                  t |-> [year |-> 2000 + Atoi(SubSeq(dateField, 5, 6)),
                         month |-> Atoi(SubSeq(dateField, 3, 4)),
                         day |-> Atoi(SubSeq(dateField, 1, 2)),
                         hour |-> Atoi(SubSeq(timeField, 1, 2)),
                         min |-> Atoi(SubSeq(timeField, 3, 4)),
                         sec |-> Atoi(SubSeq(timeField, 5, 6))]]

C15_Witness ==
    /\ parsed.stage = "done"
    /\ timeField = "235959"
    /\ dateField = "311299"
    /\ parsed.err = NoErr
    /\ parsed.t.year = 2099

\* The example sentence has been split and its fields parsed.
ExampleParsed == sentence = RMCExample /\ parsed.stage = "done"

\* C16: the RMC sentence with time 123519, status A and date 230394, split
\* into fields and parsed, gives the time 1994-03-23 12:35:19.
C16_ExampleGives1994 ==
    ExampleParsed =>
        Parsed = [err |-> NoErr,
                  t |-> [year |-> 1994, month |-> 3, day |-> 23,
                         hour |-> 12, min |-> 35, sec |-> 19]]

\* C16, amended: the same sentence gives the time 2094-03-23 12:35:19.
C16_ExampleGives2094 ==
    ExampleParsed =>
        /\ timeField = "123519"
        /\ dateField = "230394"
        /\ Parsed = [err |-> NoErr,
                     t |-> [year |-> 2094, month |-> 3, day |-> 23,
                            hour |-> 12, min |-> 35, sec |-> 19]]

C16_Witness ==
    /\ ExampleParsed
    /\ parsed.err = NoErr
    /\ parsed.t.year = 2094

BitsOf(n) == {i \in 0..7 : (n \div (2 ^ i)) % 2 = 1}

\* The bytes of a string that have bit i set.
BytesWithBit(s, i) == {k \in 1..Len(s) : i \in BitsOf(ByteOf(Char(s, k)))}

RECURSIVE BitsValue(_, _)
BitsValue(s, i) ==
    IF i > 7 THEN 0
    ELSE (Cardinality(BytesWithBit(s, i)) % 2) * (2 ^ i) + BitsValue(s, i + 1)

\* The XOR of the bytes of a string: bit i is set when an odd number of the
\* bytes have it set.
XorOfBytes(s) == BitsValue(s, 0)

IsUpperHex(c) == \E i \in 1..Len(UpperHexDigits) : Char(UpperHexDigits, i) = c

\* The value of a hexadecimal digit, upper or lower case.
HexValue(c) ==
    IF IsUpperHex(c)
    THEN (CHOOSE i \in 1..Len(UpperHexDigits) : Char(UpperHexDigits, i) = c) - 1
    ELSE (CHOOSE i \in 1..Len(LowerHexDigits) : Char(LowerHexDigits, i) = c) - 1

\* The sentences writeNMEASentences builds, with the checksums they carry.
SimulatorLines ==
    {RMCValid, RMCOtherTalker, GGAValid, GSVValid, GSVGlonass, GSVGalileo}

\* C18: for every body, addChecksumAndCRLF returns $, the body, *, two upper
\* case hexadecimal digits, CR and LF, and the two digits are the XOR of the
\* bytes of the body, a value in 0..255; for the body of a sentence with a
\* known checksum it returns that sentence.
C18_EncodedSentence ==
    encoded # "" =>
        LET n == Len(body)
        IN  /\ Len(encoded) = n + 6
            /\ Char(encoded, 1) = "$"
            /\ SubSeq(encoded, 2, n + 1) = body
            /\ Char(encoded, n + 2) = "*"
            /\ IsUpperHex(Char(encoded, n + 3))
            /\ IsUpperHex(Char(encoded, n + 4))
            /\ 16 * HexValue(Char(encoded, n + 3)) + HexValue(Char(encoded, n + 4))
                   = XorOfBytes(body)
            /\ XorOfBytes(body) \in 0..255
            /\ SubSeq(encoded, n + 5, n + 6) = "\r\n"
            /\ \A line \in SimulatorLines :
                   body = BodyOf(line) => encoded = line \o "\r\n"

C18_Witness ==
    /\ body = "A@"
    /\ encoded = "$A@*01\r\n"

\* A line without the CR and LF at its end.
RECURSIVE StripCRLF(_)
StripCRLF(line) ==
    IF Len(line) > 0 /\ Char(line, Len(line)) \in {"\r", "\n"}
    THEN StripCRLF(SubSeq(line, 1, Len(line) - 1))
    ELSE line

ErrMalformedSentence == "malformed sentence"

\* Decode of the wire format: the line must have the shape of a sentence;
\* its checksum is valid when the two digits are the XOR of the bytes between
\* the $ and the *.
Decode(line) ==
    LET s == StripCRLF(line)
    IN  IF ~StructurallyValid(s)
        THEN [err |-> ErrMalformedSentence, body |-> "", checksumValid |-> FALSE]
        ELSE [err |-> NoErr,
              body |-> BodyOf(s),
              checksumValid |->
                  XorOfBytes(BodyOf(s))
                      = 16 * HexValue(Char(s, Len(s) - 1)) + HexValue(Char(s, Len(s)))]

\* A body without $, *, CR or LF.
ValidBody(b) ==
    \A k \in 1..Len(b) : Char(b, k) \notin {"$", "*", "\r", "\n"}

\* C19: for a valid body, what addChecksumAndCRLF returns is decoded without
\* error, with that body and with a valid checksum.
C19_DecodeOfEncodeIsValid ==
    (encoded # "" /\ ValidBody(body)) =>
        Decode(encoded) = [err |-> NoErr, body |-> body, checksumValid |-> TRUE]

C19_Witness ==
    /\ body = BodyOf(RMCValid)
    /\ encoded # ""
    /\ Decode(encoded).checksumValid

\* C20: in SyncTime, reading a line that has not the shape of a sentence
\* (no leading $, no *, or no two hexadecimal digits after the *) makes no
\* SetSystemTime call; the line is skipped and the loop goes back to its
\* select.
C20_MalformedLineNeverSetsClock ==
    [][(/\ op = "sync"
        /\ ReadsLine
        /\ ~StructurallyValid(LastLine(log')))
       => (/\ setCalls' = setCalls
           /\ clock' = clock
           /\ pc' = "select")]_vars

(***************************************************************************)
(* The program: main and device.MonitorDevices                             *)
(***************************************************************************)
\* C21: in every state of a run of the program (the probe of the -d device,
\* the selection loop, the menu loop, MonitorDevices) there is at most one
\* open handle on any device path.
C21_AtMostOneHandlePerPath == \A path \in AllPaths : handles[path] <= 1

C21_Witness ==
    /\ mainPc = "inSync"
    /\ device \in confirmed
    /\ handles[device] = 1

\* C22: in monitor mode a delivered SIGINT or SIGTERM leads to the end of
\* MonitorDevices and of the program.
C22_InterruptEndsMonitorMode ==
    (mainPc \in MonitorPcs /\ sigChan = 1) ~> (mainPc = "exited")

\* A step of the loop of MonitorDevices over the enumerated paths.
VisitStep ==
    /\ mainPc = "visit"
    /\ devices # <<>>
    /\ (mainPc' # mainPc \/ devices' # devices)

\* The paths of a sequence.
Range(seq) == {seq[k] : k \in 1..Len(seq)}

\* C23: in MonitorDevices an enumerated path that is not in seenDevices is
\* reported as new, put into seenDevices and probed next, once: a probe starts
\* only for the path just reported, and when it is over the loop has left
\* that path behind; an enumerated path that is in seenDevices is neither
\* reported nor probed.
C23_NewPathReportedAndProbedOnce ==
    [][/\ (VisitStep /\ Head(devices) \notin seen) =>
             /\ Reported("new", Head(devices)) \in printed' \ printed
             /\ Head(devices) \in seen'
             /\ mainPc' = "probeNew"
             /\ device' = Head(devices)
       /\ (VisitStep /\ Head(devices) \in seen) =>
             /\ printed' = printed
             /\ seen' = seen
             /\ mainPc' = "visit"
             /\ pc' = "idle"
       /\ (mainPc \in MonitorPcs /\ mainPc # "probing" /\ mainPc' = "probing") =>
             /\ mainPc = "probeNew"
             /\ op' = "probe"
             /\ device = Head(devices)
             /\ device \in seen
             /\ Reported("new", device) \in printed
       /\ (mainPc' \in MonitorPcs /\ mainPc' # "probing") => pc' = "idle"
       /\ (mainPc = "probing" /\ mainPc' # mainPc) =>
             /\ mainPc' = "visit"
             /\ device \in seen'
             /\ device \notin Range(devices')]_vars

C23_Witness ==
    /\ mainPc = "probing"
    /\ pc = "scan"
    /\ Reported("new", device) \in printed
    /\ \E path \in seen \ {device} : Reported("new", path) \notin printed

\* C24: at the end of a poll of MonitorDevices every path of seenDevices
\* that no longer exists is reported removed and deleted from seenDevices,
\* and the others stay; a path that was removed and is enumerated again is
\* reported as new and probed again.
C24_RemovedPathForgotten ==
    /\ [][(mainPc = "visit" /\ devices = <<>> /\ mainPc' # mainPc) =>
             \A path \in seen :
                 IF path \in present
                 THEN path \in seen' /\ Reported("removed", path) \notin printed'
                 ELSE path \notin seen' /\ Reported("removed", path) \in printed']_vars
    /\ [][(VisitStep /\ Head(devices) \in removed /\ Head(devices) \notin seen) =>
             /\ Reported("new", Head(devices)) \in printed'
             /\ mainPc' = "probeNew"
             /\ device' = Head(devices)]_vars

C24_Witness ==
    /\ mainPc = "probing"
    /\ pc = "scan"
    /\ device \in removed
    /\ Reported("new", device) \in printed

\* C25: main calls SyncTime or MonitorGPS only for a path on which a probe of
\* this run has returned true, and when the probe of the -d device returns an
\* error or false the program ends and the menu is not shown.
C25_OnlyConfirmedDeviceIsUsed ==
    [][/\ (mainPc' # mainPc /\ mainPc' \in {"inSync", "inMonitor"}) =>
             /\ op' \in {"sync", "monitor"}
             /\ device' \in confirmed
       /\ (op' \in {"sync", "monitor"} /\ pc' # "idle") => device' \in confirmed
       /\ (/\ mainPc = "cliProbing"
           /\ mainPc' # mainPc
           /\ (result.err # NoErr \/ ~result.ok)) => mainPc' = "exited"
       /\ mainPc = "exited" => mainPc' = "exited"]_vars

C25_Witness ==
    /\ mainPc = "exited"
    /\ selected # ""
    /\ devices = <<>>
    /\ confirmed = {}
    /\ result.err = ErrNoValidData

\* C30: a call of IsGPSDevice, SyncTime or MonitorGPS that ends because the
\* device cannot be opened or cannot be configured returns an error that is
\* ErrDeviceAccess, has read no line and has not called SetSystemTime (on a
\* platform the program supports; elsewhere the error is ErrUnsupportedOS).
C30_SetupFailureIsDeviceAccess ==
    [][(/\ mainPc = "none"
        /\ goos \in UnixLike \cup {"windows"}
        /\ pc' = "idle"
        /\ \/ pc = "configure"
           \/ pc = "idle" /\ cancelled' = cancelled /\ result'.err # ErrInvalidPath)
       => (/\ result'.err = ErrDeviceAccess
           /\ log' = <<>>
           /\ setCalls' = 0
           /\ clock' = clock)]_vars

(***************************************************************************)
(* The simulator                                                           *)
(***************************************************************************)
\* ParsePosition on one field: the value of DDMM.MMMM or DDDMM.MMMM is split
\* into degrees = integer part of value/100 and minutes = the remainder; the
\* result is degrees + minutes/60, negated for S and W. It is given as sign,
\* whole degrees, and minutes/60 in thirds of 1e-7 degrees.
ParseCoordinate(field, hemisphere) ==
    LET point == IndexFrom(field, ".", 1)
        value == Atoi(SubSeq(field, 1, point - 1)) * 10000
                 + Atoi(SubSeq(field, point + 1, Len(field)))
        degrees == value \div 1000000
        minutes == value % 1000000
    IN  [sign |-> IF hemisphere \in {"S", "W"} THEN -1 ELSE 1,
         degrees |-> degrees,
         thirds |-> 50 * minutes]

\* A parsed coordinate is within 1e-4 degrees of deg (Tolerance is 1e-4
\* degrees in thirds of 1e-7 degrees).
Within(decimal, deg) ==
    LET Tolerance == 3000
        absDeg == IF deg < 0 THEN -deg ELSE deg
        sameSide == (deg < 0) = (decimal.sign < 0)
        gap == decimal.degrees * Degree - absDeg
    IN  IF sameSide
        THEN /\ decimal.degrees <= 181
             /\ -2 * Degree < gap /\ gap < 2 * Degree
             /\ -Tolerance <= 3 * gap + decimal.thirds
             /\ 3 * gap + decimal.thirds <= Tolerance
        ELSE /\ decimal.degrees = 0
             /\ absDeg < Degree
             /\ decimal.thirds + 3 * absDeg <= Tolerance

\* C26: for a latitude in [-90,90] and a longitude in [-180,180], what
\* ParsePosition makes of the fields and hemispheres toNMEALat and toNMEALon
\* return is within 1e-4 degrees of the value encoded.
C26_PositionRoundTrip ==
    (simPc = "position" /\ nmeaPos # NoNMEAPos) =>
        /\ Within(ParseCoordinate(nmeaPos.lat, nmeaPos.ns), currentPos.Latitude)
        /\ Within(ParseCoordinate(nmeaPos.lon, nmeaPos.ew), currentPos.Longitude)

\* The minutes of the latitude are rounded up to 60.0000, on the western
\* hemisphere.
C26_Witness ==
    /\ simPc = "position"
    /\ currentPos.Latitude = 51 * Degree + 9999992
    /\ nmeaPos.lat = "5160.0000"
    /\ nmeaPos.ew = "W"
    /\ nmeaPos.lon = "00207.0380"

\* The fields of an emitted sentence: what stands between its $ and its *,
\* cut at the commas.
EmittedFields(s) == Split(SubSeq(s, 2, IndexFrom(s, "*", 1) - 1), ",")

\* The GSV sentences of the cycle: those after the RMC and the GGA sentence.
GSVBatch == SubSeq(sentences, 3, Len(sentences))

\* The satellite records of a GSV sentence, when they have four fields each.
RecordsOf(s) == (Len(EmittedFields(s)) - 4) \div 4

RECURSIVE RecordsUpTo(_)
RecordsUpTo(i) == IF i = 0 THEN 0 ELSE RecordsOf(GSVBatch[i]) + RecordsUpTo(i - 1)

\* C27: with T satellites in view the cycle has M = ceil(T/4) GSV sentences,
\* numbered 1..M in order, each carrying M and T; each has between 1 and 4
\* records of four fields, and the records of the batch number T.
C27_GSVBatchConsistent ==
    sentences # <<>> =>
        LET T == numSVInView
            M == Len(GSVBatch)
        IN  /\ 4 * M >= T
            /\ 4 * (M - 1) < T
            /\ \A i \in 1..M :
                   LET f == EmittedFields(GSVBatch[i])
                   IN  /\ Len(f) >= 4
                       /\ SubSeq(f[1], 3, 5) = "GSV"
                       /\ AllDigits(f[2]) /\ Atoi(f[2]) = M
                       /\ AllDigits(f[3]) /\ Atoi(f[3]) = i
                       /\ AllDigits(f[4]) /\ Atoi(f[4]) = T
                       /\ (Len(f) - 4) % 4 = 0
                       /\ RecordsOf(GSVBatch[i]) \in 1..4
                       /\ \A k \in 5..Len(f) : AllDigits(f[k]) /\ f[k] # ""
            /\ RecordsUpTo(M) = T

\* Thirteen satellites in view: the fourth sentence has one record.
C27_Witness ==
    /\ simPc = "write"
    /\ numSVInView = 13
    /\ Len(GSVBatch) = 4
    /\ RecordsOf(GSVBatch[4]) = 1

\* C28: every GGA sentence of the simulator carries a number of satellites in
\* use in 0..12, the value of -sats moved to the nearest of the two when it is
\* outside, and every sentence a talker ID of GP, GN, GL, GA in upper case;
\* with any other -talker the simulator ends and emits nothing.
C28_SatellitesAndTalkerInRange ==
    /\ [](\A i \in 1..Len(sentences) :
              LET f == EmittedFields(sentences[i])
              IN  /\ SubSeq(f[1], 1, 2) \in TalkerIDs
                  /\ SubSeq(f[1], 3, 5) = "GGA" =>
                         /\ AllDigits(f[8])
                         /\ Atoi(f[8]) \in 0..12
                         /\ Atoi(f[8]) = numSatellites)
    /\ [][(simPc = "main" /\ simPc' # "main") =>
             IF ToUpper(talkerID) \in TalkerIDs
             THEN /\ talkerID' = ToUpper(talkerID)
                  /\ numSatellites' = (IF numSatellites < 0 THEN 0
                                       ELSE IF numSatellites > 12 THEN 12
                                       ELSE numSatellites)
             ELSE simPc' = "exited"]_vars
    /\ [][simPc = "exited" => (simPc' = "exited" /\ sentences' = <<>> /\ port' = <<>>)]_vars

C28_Witness ==
    /\ talkerID = "GN"
    /\ numSatellites = 0
    /\ Len(port) >= 2

\* C29: the write loop tries a sentence at most three times; a successful
\* write moves on to the next sentence, so that what has been written is the
\* sentences of the cycle in order, none left out; after the third failure of
\* one sentence the loop is over and nothing more is written.
C29_WriteRetries ==
    /\ [](simPc \in {"write", "tick", "returned"} =>
              /\ cursor <= Len(sentences)
              /\ port = SubSeq(sentences, 1, cursor)
              /\ simPc = "write" => (retry < 3 /\ cursor < Len(sentences))
              /\ simPc = "returned" => (retry = 3 /\ cursor < Len(sentences)))
    /\ [][(simPc = "write" /\ port' # port) =>
             /\ port' = Append(port, sentences[cursor + 1])
             /\ cursor' = cursor + 1
             /\ retry' = 0]_vars
    /\ [][simPc = "returned" => (simPc' = "returned" /\ port' = port)]_vars

C29_Witness ==
    /\ simPc = "returned"
    /\ cursor = 2
    /\ retry = 3
    /\ Len(sentences) = 6

(***************************************************************************)
(* The loops of IsGPSDevice, SyncTime and MonitorGPS                       *)
(***************************************************************************)
\* The select at the top of an iteration finds a case ready: the context is
\* cancelled, or the call has a timeout and it has fired.
SignalledAtTop ==
    /\ pc = "select"
    /\ cancelled \/ (HasTimeout(op) /\ timedOut)

\* C31: when cancellation or the timeout is signalled at the top of an
\* iteration of IsGPSDevice, SyncTime or MonitorGPS, the iteration reads and
\* handles no line: the call returns from its select, with the cancellation
\* or the timeout outcome.
C31_SignalCheckedBeforeRead ==
    [][(SignalledAtTop /\ pc' # "select") =>
          /\ pc' = "idle"
          /\ log' = log
          /\ setCalls' = setCalls
          /\ clock' = clock
          /\ shown' = shown
          /\ result'.err \in {ErrCanceled, ErrNoValidData}
          /\ result'.err = ErrCanceled => cancelled
          /\ result'.err = ErrNoValidData => (HasTimeout(op) /\ timedOut)]_vars

C31_Witness ==
    /\ Returned("monitor")
    /\ cancelled
    /\ Len(log) = 1
    /\ result.err = ErrCanceled

\* The part of a line before its first "*" (the whole line when it has none).
BeforeStar(line) ==
    LET star == IndexFrom(line, "*", 1)
    IN  IF star = 0 THEN line ELSE SubSeq(line, 1, star - 1)

\* C32: SyncTime does not look at the checksum: reading a status-A $GPRMC
\* sentence whose time and date parse calls SetSystemTime with that time and
\* ends the call, and the sentence with wrong checksum digits sets the clock
\* to what the same sentence with the right digits sets it to.
C32_SyncIgnoresChecksum ==
    [][(/\ op = "sync"
        /\ ReadsLine
        /\ StatusARMC(LastLine(log'))
        /\ TimeAndDateParse(LastLine(log')))
       => (/\ setCalls' = setCalls + 1
           /\ pc' = "idle"
           /\ lastSet' = "ok" => /\ result'.err = NoErr
                                 /\ clock' = ClockFrom(LastLine(log'))
           /\ LastLine(log') = RMCBadSum => ClockFrom(RMCBadSum) = ClockFrom(RMCValid))]_vars

C32_Witness ==
    /\ Returned("sync")
    /\ log = <<RMCBadSum>>
    /\ setCalls = 1
    /\ result.err = NoErr
    /\ clock = ClockFrom(RMCValid)

\* The date field of a line, taken from the part of the line before "*".
DateBeforeStar(line) == Split(BeforeStar(line), ",")[10]

\* C33: the date field SyncTime hands to ParseNMEATime is the field of the
\* part of the line before "*", also when it is the last field of the
\* sentence: a status-A $GPRMC sentence whose time and 6-character date,
\* taken from before the "*", parse sets the clock and ends the call.
C33_DateFieldExcludesChecksum ==
    [][(/\ op = "sync"
        /\ ReadsLine
        /\ StatusARMC(LastLine(log'))
        /\ ParseNMEATime(Fields(LastLine(log'))[2],
                         DateBeforeStar(LastLine(log'))).err = NoErr)
       => (/\ setCalls' = setCalls + 1
           /\ pc' = "idle")]_vars

\* The select of a call with a timeout finds the timeout fired.
PastDeadline ==
    /\ pc = "select"
    /\ HasTimeout(op)
    /\ timedOut

\* C34: the timeout of IsGPSDevice and SyncTime is fixed when the loop starts
\* and no line that is read extends it.  Once it has fired it stays fired
\* until the call returns; a read that was under way may still return one
\* line, which brings the loop back to its select (or ends the call); and the
\* select that finds the timeout fired can always be taken and returns, with
\* ErrNoValidData unless the cancellation case is taken, without another read.
\* So a device that keeps delivering lines gets at most one line handled
\* after the deadline.
C34_LinesDoNotExtendDeadline ==
    /\ [](PastDeadline => ENABLED Select)
    /\ [][(pc \in {"select", "scan"} /\ timedOut /\ pc' # "idle") => timedOut']_vars
    /\ [][(HasTimeout(op) /\ timedOut /\ ReadsLine /\ pc' # "idle")
             => (pc = "scan" /\ pc' = "select")]_vars
    /\ [][(PastDeadline /\ pc' # "select")
             => (/\ pc' = "idle"
                 /\ log' = log
                 /\ \/ result'.err = ErrNoValidData
                    \/ cancelled /\ result'.err = ErrCanceled)]_vars

C34_Witness ==
    /\ Returned("sync")
    /\ timedOut
    /\ log = <<RMCVoid, RMCOtherTalker>>
    /\ result.err = ErrNoValidData

\* C35: in MonitorDevices the error of a probe does not end the monitor: the
\* loop goes on with the next enumerated path, the path stays in seenDevices
\* and, being there, is not probed again as long as it exists.  A poll in
\* which FindGPSDevices returns ErrNoGPSDevices goes on to the check for
\* removed paths and the next interval.  MonitorDevices returns only from a
\* poll in which FindGPSDevices returns another error.
C35_MonitorDevicesSurvivesErrors ==
    [][/\ (mainPc = "probing" /\ mainPc' # mainPc /\ result.err # NoErr) =>
             /\ mainPc' = "visit"
             /\ devices' = Tail(devices)
             /\ seen' = seen
             /\ device \in seen
       /\ (mainPc = "visit" /\ mainPc' = "probeNew") => device' \notin seen
       /\ (mainPc \in MonitorPcs /\ mainPc' \in MonitorPcs) =>
             \A path \in seen \cap present : path \in seen'
       /\ (mainPc = "monitorWait" /\ mainPc' # mainPc
           /\ FindGPSDevices(goos, present).err = ErrNoGPSDevices) =>
             /\ mainPc' = "visit"
             /\ devices' = <<>>
       /\ (mainPc = "visit" /\ devices = <<>> /\ mainPc' # mainPc) =>
             mainPc' \in {"checkRemoved", "monitorWait"}
       /\ (mainPc \in MonitorPcs /\ mainPc' \notin MonitorPcs) =>
             /\ mainPc = "monitorWait"
             /\ FindGPSDevices(goos, present).err \notin {NoErr, ErrNoGPSDevices}]_vars

C35_Witness ==
    /\ mainPc = "monitorWait"
    /\ op = "probe"
    /\ result.err = ErrRead
    /\ device \in seen \cap present
    /\ device \notin confirmed

\* C36: once g.Ctx is cancelled, SyncTime makes no SetSystemTime call and
\* the clock stays as it is, whenever the cancellation comes: before the
\* call, at the select, or while scanner.Scan() is waiting for a line.
C36_NoClockSetAfterCancel ==
    [][(op = "sync" /\ pc # "idle" /\ cancelled)
       => (setCalls' <= setCalls /\ clock' = clock)]_vars

\* main is at its menu, or in a call made from it.
AtMenu == mainPc \in {"menu", "inSync", "inMonitor"}

\* The step is a menu call that has returned at once, or the return of a call
\* from its setup or its select.
ReturnsWithoutRead ==
    /\ pc # "scan"
    /\ pc' = "idle"
    /\ pc # "idle" \/ (mainPc = "menu" /\ mainPc' \in {"inSync", "inMonitor"})

\* C37 as stated: a SyncTime or MonitorGPS call made from the menu after the
\* instance was cancelled returns ErrCanceled.
C37_LaterCallsReturnCanceled ==
    [][(mainPc = "menu" /\ cancelled /\ mainPc' \in {"inSync", "inMonitor"} /\ pc' = "idle")
       => result'.err = ErrCanceled]_vars

\* C37: the cancellation of the instance of the menu is permanent: the
\* instance stays cancelled, and a call on it that is not already in a read
\* never gets to a read, reads no line and makes no SetSystemTime call.  It
\* returns an error: from its first select ErrCanceled (or ErrNoValidData
\* when the timeout has fired as well), before that the error of the open or
\* of the port configuration.
C37_CancellationIsPermanent ==
    [][(AtMenu /\ cancelled) =>
          /\ cancelled'
          /\ pc # "scan" => /\ pc' # "scan"
                            /\ ~ReadsLine
                            /\ setCalls' <= setCalls
                            /\ clock' = clock
          /\ (ReturnsWithoutRead /\ pc = "select") =>
                \/ result'.err = ErrCanceled
                \/ HasTimeout(op) /\ timedOut /\ result'.err = ErrNoValidData
          /\ (ReturnsWithoutRead /\ pc # "select") =>
                result'.err \in {ErrDeviceAccess, ErrConfigure, ErrUnsupportedOS}]_vars

C37_Witness ==
    /\ mainPc = "menu"
    /\ handler = "done"
    /\ cancelled
    /\ op = "monitor"
    /\ pc = "idle"
    /\ log = <<>>
    /\ result.err = ErrCanceled

\* C38: MonitorGPS, IsGPSDevice and MonitorDevices never call SetSystemTime:
\* no step of a MonitorGPS or IsGPSDevice call and no step of MonitorDevices
\* counts a SetSystemTime call or changes the clock, whatever is read.
C38_OnlySyncSetsClock ==
    [][(op' \in {"probe", "monitor"} \/ mainPc \in MonitorPcs \/ mainPc' \in MonitorPcs)
       => (/\ clock' = clock
           /\ setCalls' <= setCalls
           /\ op' \in {"probe", "monitor"} => (setCalls' = 0 /\ lastSet' = "none"))]_vars

C38_Witness ==
    /\ mainPc = "inMonitor"
    /\ log = <<RMCValid>>
    /\ shown # ""
    /\ setCalls = 0
    /\ clock = ClockAtBoot

\* C39: a SetSystemTime call that returns an error leaves the clock as it
\* was, time of day and date, on every platform.
C39_FailedSetLeavesClock ==
    [][(setCalls' = setCalls + 1 /\ lastSet' # "ok") => clock' = clock]_vars

\* The absolute value of a number.
Abs(n) == IF n < 0 THEN -n ELSE n

\* C40: with -move, the position of the simulator stays in range after every
\* update: the latitude within -90..90 degrees, the longitude within
\* -180..180 degrees, and the degrees of the longitude field of the sentences
\* are at most 180.
C40_MovedPositionInRange ==
    movementEnabled =>
        /\ Abs(currentPos.Latitude) <= 90 * Degree
        /\ Abs(currentPos.Longitude) <= 180 * Degree
        /\ nmeaPos # NoNMEAPos => Atoi(SubSeq(nmeaPos.lon, 1, 3)) <= 180

====
